---- MODULE Spec2Model ----
(***************************************************************************)
(* Link discovery and the sequential crawl pipeline of the story scraper,  *)
(* in its two engine revisions:                                            *)
(*   v2  enhanced-scraper-v2.js  scrapeLinksFromPage (discovery + loop)    *)
(*   v3  enhanced-scraper-v3.js  scrapeLinksFromPage, batchScrapeFromLinks *)
(* Strings are TLA+ strings; String.prototype methods are operators on     *)
(* them.  The stories table is a set of rows.                              *)
(***************************************************************************)
EXTENDS Integers, Sequences, FiniteSets, TLC

VARIABLES
    variant,     \* "v2" | "v3": which engine revision runs
    opts,        \* the options object of the call(s)
    scan,        \* the elements $(linkSelector) yields on the source page
    totalFound,  \* allLinks.length (v2) / links.length (v3)
    links,       \* linksToScrape
    i,           \* loop variable of the crawl loop (0-based, as in the code)
    pc,          \* position of the run
    cur,         \* content extracted by the scrape in flight
    db,          \* rows of the stories table
    nextId,      \* AUTOINCREMENT counter of the stories table
    results,     \* v2: results array
    errors,      \* v2: errors array
    batch,       \* v3: results object {successful, skipped, failed, stories}
    summary,     \* v2: summary of the returned object
    linkState,   \* per link: Pending, Fetching, Success, Skipped..., Failed
    pagesOpen,   \* renderer pages opened and not closed
    fetched,     \* URLs handed to page.goto, in call order
    delays,      \* 0-based indices of the links the delay was waited after
    scraped,     \* per link: the content of the result scrape returned, if any
    doc,         \* the document tree cheerio.load gave for the page in hand
    extracted,   \* what scrape extracted from doc: <<>> or one record
    cleaned,     \* a title and the results of cleanTitle applied to it in turn
    calls        \* per concurrent caller of scrape: where its call stands

vars == <<variant, opts, scan, totalFound, links, i, pc, cur, db, nextId,
          results, errors, batch, summary, linkState, pagesOpen, fetched,
          delays, scraped, doc, extracted, cleaned, calls>>

-----------------------------------------------------------------------------
(* Bounds of the model *)

\* longest raw scan explored for the link-discovery specification
MaxScan == 3
\* longest raw scan explored for the pipeline specification
MaxPipeScan == 3
\* the minContentLength the caller passes to the v2 pipeline
MinLen == 5

None == "<none>"
Undefined == "<undefined>"

-----------------------------------------------------------------------------
(* String.prototype *)

Min(a, b) == IF a < b THEN a ELSE b

CharAt(s, k) == SubSeq(s, k, k)

\* s.includes(p)
Includes(s, p) ==
    \E k \in 1..(Len(s) - Len(p) + 1) : SubSeq(s, k, k + Len(p) - 1) = p

StartsWith(s, p) == Len(s) >= Len(p) /\ SubSeq(s, 1, Len(p)) = p

Upper == <<"A", "B", "C", "D", "E", "F", "G", "H", "I", "J", "K", "L", "M",
           "N", "O", "P", "Q", "R", "S", "T", "U", "V", "W", "X", "Y", "Z">>
Lower == <<"a", "b", "c", "d", "e", "f", "g", "h", "i", "j", "k", "l", "m",
           "n", "o", "p", "q", "r", "s", "t", "u", "v", "w", "x", "y", "z">>

LowerChar(c) ==
    IF \E k \in 1..26 : Upper[k] = c
    THEN Lower[CHOOSE k \in 1..26 : Upper[k] = c]
    ELSE c

RECURSIVE ToLowerCase(_)
\* s.toLowerCase(), computed half by half
ToLowerCase(s) ==
    IF Len(s) <= 1 THEN LowerChar(s)
    ELSE LET half == Len(s) \div 2
         IN  ToLowerCase(SubSeq(s, 1, half))
             \o ToLowerCase(SubSeq(s, half + 1, Len(s)))

IsSpace(c) == c \in {" ", "\t", "\n"}

RECURSIVE Trim(_)
\* s.trim()
Trim(s) ==
    IF s = "" THEN ""
    ELSE IF IsSpace(CharAt(s, 1)) THEN Trim(SubSeq(s, 2, Len(s)))
    ELSE IF IsSpace(CharAt(s, Len(s))) THEN Trim(SubSeq(s, 1, Len(s) - 1))
    ELSE s

IsDigit(c) == c \in {"0", "1", "2", "3", "4", "5", "6", "7", "8", "9"}

\* /\d+/.test(s)
HasDigit(s) == \E k \in 1..Len(s) : IsDigit(CharAt(s, k))

\* arr.includes(x) on a sequence; arr.some(f) is written \E k \in DOMAIN arr
ArrIncludes(arr, x) == \E k \in 1..Len(arr) : arr[k] = x

\* faulty variant: slice(0) without the end index: nothing is cut off
Slice0NoEnd(arr, n) == arr

\* arr.slice(0, n)
Slice0(arr, n) == SubSeq(arr, 1, Min(Len(arr), n))

-----------------------------------------------------------------------------
(* new URL(href, base) *)

Scheme == "http://"

\* index of the first "/" of s at or after position k, Len(s)+1 if none
RECURSIVE SlashFrom(_, _)
SlashFrom(s, k) ==
    IF k > Len(s) THEN Len(s) + 1
    ELSE IF CharAt(s, k) = "/" THEN k
    ELSE SlashFrom(s, k + 1)

\* index of the last "/" of s
RECURSIVE LastSlash(_, _)
LastSlash(s, k) ==
    IF k = 0 THEN 0 ELSE IF CharAt(s, k) = "/" THEN k ELSE LastSlash(s, k - 1)

\* new URL(u).hostname of an absolute http URL string
Hostname(u) ==
    SubSeq(u, Len(Scheme) + 1, SlashFrom(u, Len(Scheme) + 1) - 1)

\* new URL(u).origin
Origin(u) == SubSeq(u, 1, SlashFrom(u, Len(Scheme) + 1) - 1)

\* does new URL(href, base) throw: an http URL without a host
Malformed(href) ==
    /\ StartsWith(ToLowerCase(href), Scheme)
    /\ Hostname(href) = ""

\* new URL(href, base).href for the href shapes of the scanned pages:
\* absolute http URLs (scheme and host are lower-cased, an empty path becomes
\* "/"), root-relative paths and paths relative to the base's directory
ResolveUrl(href, base) ==
    IF StartsWith(ToLowerCase(href), Scheme)
    THEN LET rest == SubSeq(href, SlashFrom(href, Len(Scheme) + 1), Len(href))
         IN  Scheme \o ToLowerCase(Hostname(href))
                    \o (IF rest = "" THEN "/" ELSE rest)
    ELSE IF StartsWith(href, "/") THEN Origin(base) \o href
    ELSE SubSeq(base, 1, LastSlash(base, Len(base))) \o href

-----------------------------------------------------------------------------
(* Defaults of the options objects *)

DefaultExcludePatterns ==
    <<"/css/", "/js/", "/images/", ".jpg", ".png", ".gif", ".pdf", ".zip",
      ".exe", "mailto:", "tel:">>
DefaultStoryKeywords ==
    <<"story", "chapter", "tale", "fiction", "novel", "book", "read">>
DefaultMaxLinksV2 == 50
DefaultMinContentLength == 500
DefaultMaxLinksV3 == 10
DefaultDelay == 2000
DefaultMinWordCount == 100

\* the options a call leaves out take the defaults of the destructuring
DefaultOptions ==
    [ filterPatterns   |-> <<>>,
      excludePatterns  |-> DefaultExcludePatterns,
      maxLinks         |-> DefaultMaxLinksV2,
      sameDomainOnly   |-> TRUE,
      minContentLength |-> DefaultMinContentLength,
      storyKeywords    |-> DefaultStoryKeywords,
      sameDomain       |-> TRUE,
      keywords         |-> <<>>,
      delay            |-> DefaultDelay,
      skipExisting     |-> TRUE,
      minWordCount     |-> DefaultMinWordCount ]

-----------------------------------------------------------------------------
(* Link discovery *)

ExcludeTexts ==
    <<"home", "about", "contact", "login", "register", "search", "menu",
      "navigation", "footer", "header", "sidebar">>
GenericTexts == <<"more", "click", "here", "link", "page">>

\* faulty variant: the link is pushed before new URL() is tried, so an href
\* that does not resolve is kept with its raw text
RECURSIVE AllLinksV2PushFirst(_, _)
AllLinksV2PushFirst(elems, pageUrl) ==
    IF elems = <<>> THEN <<>>
    ELSE LET el == Head(elems)
             rest == AllLinksV2PushFirst(Tail(elems), pageUrl)
         IN  IF el.href # ""
             THEN <<[url        |-> IF Malformed(el.href) THEN el.href
                                    ELSE ResolveUrl(el.href, pageUrl),
                     text       |-> Trim(el.text),
                     parentText |-> Trim(el.parentText)]>> \o rest
             ELSE rest

\* v2: the callback of $(linkSelector).each, building allLinks
RECURSIVE AllLinksV2(_, _)
AllLinksV2(elems, pageUrl) ==
    IF elems = <<>> THEN <<>>
    ELSE LET el == Head(elems)
             rest == AllLinksV2(Tail(elems), pageUrl)
         IN  IF el.href # "" /\ ~Malformed(el.href)
             THEN <<[url        |-> ResolveUrl(el.href, pageUrl),
                     text       |-> Trim(el.text),
                     parentText |-> Trim(el.parentText)]>> \o rest
             ELSE rest

\* faulty variant: the test lets through exactly the links it should stop
OffDomainInverted(domain, baseDomain) == domain = baseDomain

\* domain !== baseDomain, on the hostnames new URL() gives
OffDomain(domain, baseDomain) == domain # baseDomain

\* a filterPatterns entry that is not a string: it has no toLowerCase method
NotAString == "<not a string>"

\* v2: is the link still in the filter when the include patterns are tested
ReachesPatternsV2(link, o, baseDomain) ==
    LET url    == ToLowerCase(link.url)
        text   == ToLowerCase(link.text \o " " \o link.parentText)
        domain == Hostname(link.url)
    IN  /\ ~(o.sameDomainOnly /\ OffDomain(domain, baseDomain))
        /\ ~\E n \in DOMAIN o.excludePatterns :
               Includes(url, ToLowerCase(o.excludePatterns[n]))
        /\ ~\E n \in DOMAIN ExcludeTexts :
               Includes(text, ExcludeTexts[n]) /\ Len(text) < 50
        /\ ~(\/ Len(link.text) < 3
             \/ ArrIncludes(GenericTexts, ToLowerCase(link.text)))
        /\ Len(o.filterPatterns) > 0

\* v2: does filterPatterns.some(...) throw a TypeError on this link: it calls
\* pattern.toLowerCase() on an entry that is not a string before an earlier
\* entry has matched
PatternThrowsV2(link, o, baseDomain) ==
    LET url  == ToLowerCase(link.url)
        text == ToLowerCase(link.text \o " " \o link.parentText)
        Matches(pattern) ==
            \/ Includes(url, ToLowerCase(pattern))
            \/ Includes(text, ToLowerCase(pattern))
    IN  /\ ReachesPatternsV2(link, o, baseDomain)
        /\ \E n \in DOMAIN o.filterPatterns :
              /\ o.filterPatterns[n] = NotAString
              /\ \A m \in 1..(n - 1) : ~Matches(o.filterPatterns[m])

\* v2: the predicate of allLinks.filter
KeepLinkV2(link, o, baseDomain) ==
    LET url    == ToLowerCase(link.url)
        text   == ToLowerCase(link.text \o " " \o link.parentText)
        domain == Hostname(link.url)
        ExcludedUrl(pattern)  == Includes(url, ToLowerCase(pattern))
        ExcludedText(exclude) == Includes(text, exclude) /\ Len(text) < 50
        Included(pattern) ==
            \/ Includes(url, ToLowerCase(pattern))
            \/ Includes(text, ToLowerCase(pattern))
        HasKeyword(keyword) == Includes(url, keyword) \/ Includes(text, keyword)
        hasStoryKeywords  ==
            \E n \in DOMAIN o.storyKeywords : HasKeyword(o.storyKeywords[n])
        excludedByUrl ==
            \E n \in DOMAIN o.excludePatterns : ExcludedUrl(o.excludePatterns[n])
        excludedByText ==
            \E n \in DOMAIN ExcludeTexts : ExcludedText(ExcludeTexts[n])
        includedByPattern ==
            \E n \in DOMAIN o.filterPatterns : Included(o.filterPatterns[n])
        hasMeaningfulText == Len(link.text) > 10 /\ Len(link.text) < 200
        hasChapterNumbers ==
            \/ Includes(text, "chapter") \/ Includes(text, "part")
            \/ Includes(text, "episode") \/ HasDigit(text)
    IN  IF o.sameDomainOnly /\ OffDomain(domain, baseDomain) THEN FALSE
        ELSE IF excludedByUrl THEN FALSE
        ELSE IF excludedByText THEN FALSE
        ELSE IF Len(link.text) < 3
                \/ ArrIncludes(GenericTexts, ToLowerCase(link.text)) THEN FALSE
        ELSE IF Len(o.filterPatterns) > 0 THEN includedByPattern
        ELSE hasStoryKeywords \/ hasMeaningfulText \/ hasChapterNumbers

\* v3: the callback of $(linkSelector).each, filtering while it builds links
RECURSIVE LinksV3(_, _, _)
LinksV3(elems, pageUrl, o) ==
    IF elems = <<>> THEN <<>>
    ELSE LET el   == Head(elems)
             rest == LinksV3(Tail(elems), pageUrl, o)
             text == Trim(el.text)
             fullUrl    == ResolveUrl(el.href, pageUrl)
             linkDomain == Hostname(fullUrl)
             Excluded(pattern) == Includes(fullUrl, pattern)
             HasKeyword(keyword) ==
                 \/ Includes(ToLowerCase(text), ToLowerCase(keyword))
                 \/ Includes(ToLowerCase(fullUrl), ToLowerCase(keyword))
             excluded ==
                 \E n \in DOMAIN o.excludePatterns :
                     Excluded(o.excludePatterns[n])
             hasKeyword ==
                 \E n \in DOMAIN o.keywords : HasKeyword(o.keywords[n])
         IN  IF el.href = "" THEN rest
             ELSE IF Malformed(el.href) THEN rest
             ELSE IF o.sameDomain /\ OffDomain(linkDomain, Hostname(pageUrl))
                  THEN rest
             ELSE IF excluded THEN rest
             ELSE IF Len(o.keywords) > 0 /\ ~hasKeyword THEN rest
             ELSE <<[url |-> fullUrl, text |-> text, domain |-> linkDomain]>>
                   \o rest

\* the keys of new Map(arr.map(link => [link.url, link])), in insertion order
RECURSIVE MapKeys(_, _)
MapKeys(arr, seen) ==
    IF arr = <<>> THEN <<>>
    ELSE IF Head(arr).url \in seen THEN MapKeys(Tail(arr), seen)
    ELSE <<Head(arr).url>> \o MapKeys(Tail(arr), seen \cup {Head(arr).url})

\* Map.get(key): a later set() of the same key has replaced the value
MapGet(arr, key) ==
    arr[CHOOSE k \in 1..Len(arr) :
            /\ arr[k].url = key
            /\ \A m \in (k + 1)..Len(arr) : arr[m].url # key]

\* faulty variant: the filtered list is passed on without the Map
UniqueLinksKeepAll(arr) == arr

\* [...new Map(arr.map(link => [link.url, link])).values()]
UniqueLinks(arr) ==
    LET keys == MapKeys(arr, {})
    IN  [k \in 1..Len(keys) |-> MapGet(arr, keys[k])]

\* v2 lines 205-251: does allLinks.filter throw on a link of the scan
FilterThrowsV2(elems, pageUrl, o) ==
    LET allLinks == AllLinksV2(elems, pageUrl)
    IN  \E n \in DOMAIN allLinks :
            PatternThrowsV2(allLinks[n], o, Hostname(pageUrl))

\* v2 lines 183-255: linksToScrape of a scan
LinksToScrapeV2(elems, pageUrl, o) ==
    LET allLinks == AllLinksV2(elems, pageUrl)
        Keep(link) == KeepLinkV2(link, o, Hostname(pageUrl))
        filteredLinks == SelectSeq(allLinks, Keep)
    IN  Slice0(UniqueLinks(filteredLinks), o.maxLinks)

\* v3 lines 219-263: linksToScrape of a scan
LinksToScrapeV3(elems, pageUrl, o) ==
    Slice0(UniqueLinks(LinksV3(elems, pageUrl, o)), o.maxLinks)

-----------------------------------------------------------------------------
(* The stories table *)

\* SELECT * FROM stories WHERE url = ?
RowsOf(table, url) == {row \in table : row.url = url}

\* faulty variant: the SELECT never finds a row
GetStoryByUrlNone(table, url) == {}

\* db.get(...) yields the first matching row or undefined: a set of at most
\* one row
GetStoryByUrl(table, url) ==
    IF RowsOf(table, url) = {} THEN {}
    ELSE {CHOOSE row \in RowsOf(table, url) : TRUE}

\* faulty variant: the lookup's result is never taken as a stored record
ExistsNever(row) == FALSE

\* faulty variant: whatever the lookup gives is taken as a stored record
ExistsAlways(row) == TRUE

\* the truthiness test `if (existing)`
Exists(row) == row # {}

NewRow(id, url, content) ==
    [id |-> id, url |-> url, content |-> content, fresh |-> TRUE]

\* v2: INSERT OR REPLACE INTO stories: url is UNIQUE, the conflicting row goes
InsertOrReplace(table, id, url, content) ==
    (table \ RowsOf(table, url)) \cup {NewRow(id, url, content)}

\* faulty variant: the url column carries no UNIQUE constraint
UniqueViolationNever(table, url) == FALSE

\* v3: INSERT INTO stories: does the UNIQUE constraint on url reject the row
UniqueViolation(table, url) == RowsOf(table, url) # {}

\* v3: INSERT INTO stories, once the constraint has let the row in
InsertRow(table, id, url, content) == table \cup {NewRow(id, url, content)}

\* DELETE FROM stories WHERE url = ?
DeleteStoryByUrl(table, url) == table \ RowsOf(table, url)

-----------------------------------------------------------------------------
(* The crawl loop: v2 lines 283-347, v3 lines 282-345 *)

Link == links[i + 1]

\* faulty variant: the try block opens only after the duplicate lookup
InsideTryAfterLookup(step) == step # "lookup"

\* is the statement at this await inside the loop's try block
InsideTry(step) == TRUE

\* faulty variant: the loop variable is incremented in the header and in the body
NextIndexTwice(k) == k + 2

\* faulty variant: the loop variable is not incremented
NextIndexStuck(k) == k

\* for (...; i++)
NextIndex(k) == k + 1

\* v3: result.wordCount, where result is what scrape returned:
\* { story, skipped } has no wordCount property
ResultWordCount(result) == Undefined

\* x < n in JavaScript when x may be undefined (undefined < n is false)
LessThan(x, n) == IF x = Undefined THEN FALSE ELSE x < n

\* v2: is the extracted content too short (result.content.length < min)
TooShortV2(content, o) == Len(content) < o.minContentLength

\* v3: is the story too short (result.wordCount < minWordCount)
TooShortV3(result, o) == LessThan(ResultWordCount(result), o.minWordCount)

\* v2: the entry pushed to results or errors for a link
EntryV2(link, status, reason) ==
    [url |-> link.url, status |-> status, reason |-> reason]

\* faulty variant: `continue` is reached without the push for a too-short link
ResultsAfterNoShortPush(rs, st, link) ==
    CASE st = "Success"          -> Append(rs, EntryV2(link, "success", None))
      [] st = "SkippedDuplicate" ->
            Append(rs, EntryV2(link, "skipped", "already_exists"))
      [] OTHER                   -> rs

\* v2: results after a link has ended in state st
ResultsAfter(rs, st, link) ==
    CASE st = "Success"          -> Append(rs, EntryV2(link, "success", None))
      [] st = "SkippedDuplicate" ->
            Append(rs, EntryV2(link, "skipped", "already_exists"))
      [] st = "SkippedTooShort"  ->
            Append(rs, EntryV2(link, "skipped", "content_too_short"))
      [] OTHER                   -> rs

\* v2: errors after a link has ended in state st
ErrorsAfter(es, st, link) ==
    IF st = "Failed" THEN Append(es, EntryV2(link, "error", None)) ELSE es

\* faulty variant: `continue` is reached without results.skipped++ for a duplicate
BatchAfterSkipUncounted(b, st, result) ==
    CASE st = "Success" ->
            [b EXCEPT !.successful = @ + 1, !.stories = Append(@, result)]
      [] st = "SkippedTooShort"  -> [b EXCEPT !.skipped = @ + 1]
      [] st = "SkippedDuplicate" -> b
      [] OTHER -> [b EXCEPT !.failed = @ + 1]

\* v3: the results object after a link has ended in state st
BatchAfter(b, st, result) ==
    CASE st = "Success" ->
            [b EXCEPT !.successful = @ + 1, !.stories = Append(@, result)]
      [] st \in {"SkippedDuplicate", "SkippedTooShort"} ->
            [b EXCEPT !.skipped = @ + 1]
      [] OTHER -> [b EXCEPT !.failed = @ + 1]

CountStatus(rs, status) ==
    Cardinality({k \in 1..Len(rs) : rs[k].status = status})

\* v2 lines 328-332
SummaryOf(rs, es) ==
    [successful |-> CountStatus(rs, "success"),
     skipped    |-> CountStatus(rs, "skipped"),
     failed     |-> Len(es)]

\* faulty variant: v3 has no `continue` before the delay, so the delay is
\* waited after skipped links as well
WaitsAfterSkipped(v, st, k, n, o) ==
    IF v = "v2" THEN st = "Success"
    ELSE k < n - 1 /\ o.delay > 0

\* is the politeness delay waited after a link that ended in state st:
\* v2 waits at the end of the try block, which `continue` and a throw leave
\* early; v3 waits after the try/catch unless `continue` skipped it
WaitsAfter(v, st, k, n, o) ==
    IF v = "v2" THEN st = "Success"
    ELSE st \in {"Success", "Failed"} /\ k < n - 1 /\ o.delay > 0

\* where a link starts: v3 without skipExisting goes straight into scrape
StartPc(v, o) == IF v = "v3" /\ ~o.skipExisting THEN "scrape" ELSE "lookup"

\* the loop condition is tested again: next link, or the function returns
Advance(rs, es) ==
    /\ i' = NextIndex(i)
    /\ IF NextIndex(i) < Len(links)
       THEN pc' = StartPc(variant, opts) /\ summary' = summary
       ELSE /\ pc' = "done"
            /\ summary' = IF variant = "v2" THEN SummaryOf(rs, es) ELSE summary

\* the link in hand ends in state st; result is what scrape returned (v3)
EndLink(st, result) ==
    LET rs == IF variant = "v2" THEN ResultsAfter(results, st, Link)
              ELSE results
        es == IF variant = "v2" THEN ErrorsAfter(errors, st, Link)
              ELSE errors
    IN  /\ results' = rs
        /\ errors' = es
        /\ batch' = IF variant = "v3" THEN BatchAfter(batch, st, result)
                    ELSE batch
        /\ linkState' = [linkState EXCEPT ![i + 1] = st]
        /\ cur' = None
        /\ IF WaitsAfter(variant, st, i, Len(links), opts)
           THEN pc' = "delay" /\ i' = i /\ summary' = summary
           ELSE Advance(rs, es)

\* an await of the loop body rejects: the catch block, or the run throws
Throw(step) ==
    IF InsideTry(step)
    THEN EndLink("Failed", None)
    ELSE /\ pc' = "threw"
         /\ UNCHANGED <<results, errors, batch, linkState, cur, i, summary>>

-----------------------------------------------------------------------------
(* Inputs *)

PageUrl == "http://s.com/"

Elem(href, text, parentText) ==
    [href |-> href, text |-> text, parentText |-> parentText]

\* anchors of the source pages the pipeline is run on: two anchors of one
\* URL, an anchor back to the source page itself, a relative href
PipeElems ==
    { Elem("/story/one", "Story One", "Story One"),
      Elem("/story/one", " Read it ", "Read it now"),
      Elem("/", "Chapter index", "Chapter index"),
      Elem("c2", "Chapter Two", "Next: Chapter Two") }

\* what the extractors make of a loaded page: the content string
Contents == {"tiny", "a long enough story"}

\* URLs that may have a stored record before the run starts
PreUrls == {"http://s.com/story/one", "http://s.com/c2"}

RECURSIVE SeqsUpTo(_, _)
\* all sequences over S of length at most n
SeqsUpTo(S, n) ==
    IF n = 0 THEN {<<>>}
    ELSE LET shorter == SeqsUpTo(S, n - 1)
         IN  shorter \cup {Append(q, x) : q \in shorter, x \in S}

RECURSIVE TableOf(_, _)
\* a stories table holding one earlier record per URL of the set
TableOf(urls, id) ==
    IF urls = {} THEN {}
    ELSE LET u == CHOOSE x \in urls : TRUE
         IN  {[id |-> id, url |-> u, content |-> "an earlier long story",
               fresh |-> FALSE]} \cup TableOf(urls \ {u}, id + 1)

\* the option objects the pipeline is called with
PipeOptions(v) ==
    IF v = "v2"
    THEN {[DefaultOptions EXCEPT !.minContentLength = MinLen]}
    ELSE {[DefaultOptions EXCEPT !.skipExisting = se, !.delay = d] :
              se \in BOOLEAN, d \in {0, DefaultDelay}}

NoDoc == [elements |-> <<>>]

\* how many callers may have a call of scrape in flight at once
MaxCalls == 2

Callers == 1..MaxCalls

\* a caller that has not called yet
IdleCall == [pc |-> "idle", url |-> None, cur |-> None, result |-> None,
             opened |-> 0, after |-> {}, had |-> FALSE]

NoCalls == [p \in Callers |-> IdleCall]

NoSummary == [successful |-> 0, skipped |-> 0, failed |-> 0]

EmptyBatch == [successful |-> 0, skipped |-> 0, failed |-> 0, stories |-> <<>>]

InitRun ==
    /\ totalFound = 0
    /\ links = <<>>
    /\ i = 0
    /\ pc = IF variant = "v3" THEN "request" ELSE "start"
    /\ cur = None
    /\ results = <<>>
    /\ errors = <<>>
    /\ batch = EmptyBatch
    /\ summary = NoSummary
    /\ linkState = <<>>
    /\ pagesOpen = 0
    /\ fetched = <<>>
    /\ delays = <<>>
    /\ scraped = <<>>
    /\ doc = NoDoc
    /\ extracted = <<>>
    /\ cleaned = <<>>
    /\ calls = NoCalls

Init ==
    /\ variant \in {"v2", "v3"}
    /\ opts \in PipeOptions(variant)
    /\ scan \in SeqsUpTo(PipeElems, MaxPipeScan)
    /\ \E pre \in SUBSET PreUrls :
          /\ db = TableOf(pre, 1)
          /\ nextId = Cardinality(pre) + 1
    /\ InitRun

-----------------------------------------------------------------------------
(* Actions *)

loopVars == <<i, cur, results, errors, batch, summary, linkState>>

\* the page under extraction; the crawl loop takes its content as an input
pageVars == <<doc, extracted, cleaned>>

\* scrape has returned a result with this content for the link in hand
Scraped(content) == scraped' = [scraped EXCEPT ![i + 1] = content]

\* `if (!url)` of the request handlers
Missing(url) == url \in {Undefined, ""}

\* POST /scrape-links: the handler of the server, which runs the v3 engine,
\* answers 400 when the body has no url and calls scrapeLinksFromPage otherwise
ScrapeLinksRequest ==
    /\ pc = "request"
    /\ \E url \in {PageUrl, Undefined, ""} :
          pc' = IF Missing(url) THEN "rejected" ELSE "start"
    /\ UNCHANGED <<scraped, variant, opts, scan, totalFound, links, db, nextId,
                   pagesOpen, fetched, delays>>
    /\ UNCHANGED loopVars
    /\ UNCHANGED pageVars
    /\ UNCHANGED calls

\* v2 lines 176-237: the source page is loaded and scanned, then the filter
\* throws a TypeError on a filterPatterns entry; page.close() is not reached
DiscoverThrowsV2 ==
    /\ pc = "start" /\ variant = "v2"
    /\ FilterThrowsV2(scan, PageUrl, opts)
    /\ fetched' = Append(fetched, PageUrl)
    /\ pagesOpen' = pagesOpen + 1
    /\ pc' = "typeError"
    /\ UNCHANGED <<scraped, variant, opts, scan, totalFound, links, db, nextId,
                   delays>>
    /\ UNCHANGED loopVars
    /\ UNCHANGED pageVars
    /\ UNCHANGED calls

\* v2 lines 176-281: the source page is loaded, scanned, filtered and closed
DiscoverV2 ==
    /\ pc = "start" /\ variant = "v2"
    /\ ~FilterThrowsV2(scan, PageUrl, opts)
    /\ fetched' = Append(fetched, PageUrl)
    /\ totalFound' = Len(AllLinksV2(scan, PageUrl))
    /\ links' = LinksToScrapeV2(scan, PageUrl, opts)
    /\ linkState' = [k \in 1..Len(links') |-> "Pending"]
    /\ scraped' = [k \in 1..Len(links') |-> None]
    /\ IF Len(links') = 0
       THEN pc' = "done" /\ summary' = SummaryOf(<<>>, <<>>)
       ELSE pc' = "lookup" /\ summary' = summary
    /\ UNCHANGED <<variant, opts, scan, i, cur, db, nextId, results, errors,
                   batch, pagesOpen, delays>>
    /\ UNCHANGED pageVars
    /\ UNCHANGED calls

\* v3 lines 212-279: scrapeLinksFromPage returns linksToScrape
DiscoverV3 ==
    /\ pc = "start" /\ variant = "v3"
    /\ fetched' = Append(fetched, PageUrl)
    /\ totalFound' = Len(LinksV3(scan, PageUrl, opts))
    /\ links' = LinksToScrapeV3(scan, PageUrl, opts)
    /\ linkState' = [k \in 1..Len(links') |-> "Pending"]
    /\ scraped' = [k \in 1..Len(links') |-> None]
    /\ pc' = "batch"
    /\ UNCHANGED <<variant, opts, scan, i, cur, db, nextId, results, errors,
                   batch, summary, pagesOpen, delays>>
    /\ UNCHANGED pageVars
    /\ UNCHANGED calls

\* page.goto(pageUrl) rejects: nothing catches it, the page stays open
DiscoverFails ==
    /\ pc = "start"
    /\ fetched' = Append(fetched, PageUrl)
    /\ pagesOpen' = pagesOpen + 1
    /\ pc' = "threw"
    /\ UNCHANGED <<scraped, variant, opts, scan, totalFound, links, db, nextId,
                   delays>>
    /\ UNCHANGED loopVars
    /\ UNCHANGED pageVars
    /\ UNCHANGED calls

\* v3 lines 282-298: batchScrapeFromLinks is called with the links found
BatchStart ==
    /\ pc = "batch"
    /\ pc' = IF Len(links) = 0 THEN "done" ELSE StartPc(variant, opts)
    /\ UNCHANGED <<scraped, variant, opts, scan, totalFound, links, db, nextId,
                   pagesOpen, fetched, delays>>
    /\ UNCHANGED loopVars
    /\ UNCHANGED pageVars
    /\ UNCHANGED calls

\* v2 lines 293-299, v3 lines 305-312: await this.getStoryByUrl(link.url)
Lookup ==
    /\ pc = "lookup"
    /\ LET existing == GetStoryByUrl(db, Link.url)
       IN  IF Exists(existing)
           THEN EndLink("SkippedDuplicate", None)
           ELSE /\ pc' = IF variant = "v2" THEN "load" ELSE "scrape"
                /\ linkState' = [linkState EXCEPT ![i + 1] = "Fetching"]
                /\ UNCHANGED <<i, cur, results, errors, batch, summary>>
    /\ UNCHANGED <<scraped, variant, opts, scan, totalFound, links, db, nextId,
                   pagesOpen, fetched, delays>>
    /\ UNCHANGED pageVars
    /\ UNCHANGED calls

\* the SELECT of getStoryByUrl fails
LookupFails ==
    /\ pc = "lookup"
    /\ Throw("lookup")
    /\ UNCHANGED <<scraped, variant, opts, scan, totalFound, links, db, nextId,
                   pagesOpen, fetched, delays>>
    /\ UNCHANGED pageVars
    /\ UNCHANGED calls

\* v3 lines 144-159: scrape looks the URL up itself and returns skipped: true;
\* back in the loop that result has no wordCount and is counted successful
ScrapeLookup ==
    /\ pc = "scrape" /\ variant = "v3"
    /\ LET existingStory == GetStoryByUrl(db, Link.url)
           result == [skipped |-> TRUE, story |-> existingStory]
       IN  IF Exists(existingStory)
           THEN IF TooShortV3(result, opts)
                THEN EndLink("SkippedTooShort", result)
                ELSE EndLink("Success", result)
           ELSE /\ pc' = "load"
                /\ linkState' = [linkState EXCEPT ![i + 1] = "Fetching"]
                /\ UNCHANGED <<i, cur, results, errors, batch, summary>>
    /\ UNCHANGED <<scraped, variant, opts, scan, totalFound, links, db, nextId,
                   pagesOpen, fetched, delays>>
    /\ UNCHANGED pageVars
    /\ UNCHANGED calls

\* the SELECT of scrape fails
ScrapeLookupFails ==
    /\ pc = "scrape" /\ variant = "v3"
    /\ Throw("scrape")
    /\ UNCHANGED <<scraped, variant, opts, scan, totalFound, links, db, nextId,
                   pagesOpen, fetched, delays>>
    /\ UNCHANGED pageVars
    /\ UNCHANGED calls

\* v2 lines 130-143, v3 lines 161-177: the page is opened, loaded, extracted
\* from and closed
Load ==
    /\ pc = "load"
    /\ \E content \in Contents : cur' = content
    /\ fetched' = Append(fetched, Link.url)
    /\ pc' = "insert"
    /\ UNCHANGED <<scraped, variant, opts, scan, totalFound, links, db, nextId,
                   pagesOpen, delays, i, results, errors, batch, summary,
                   linkState>>
    /\ UNCHANGED pageVars
    /\ UNCHANGED calls

\* page.goto(url) rejects: scrape throws before page.close()
LoadFails ==
    /\ pc = "load"
    /\ fetched' = Append(fetched, Link.url)
    /\ pagesOpen' = pagesOpen + 1
    /\ Throw("load")
    /\ UNCHANGED <<scraped, variant, opts, scan, totalFound, links, db, nextId,
                   delays>>
    /\ UNCHANGED pageVars
    /\ UNCHANGED calls

\* v2 lines 146-160 and 303-320, v3 lines 180-197 and 316-325: the INSERT
\* succeeds, scrape returns, and the loop checks the length of the result
Insert ==
    /\ pc = "insert"
    /\ nextId' = nextId + 1
    /\ Scraped(cur)
    /\ IF variant = "v2"
       THEN /\ db' = InsertOrReplace(db, nextId, Link.url, cur)
            /\ IF TooShortV2(cur, opts)
               THEN /\ pc' = "delete"
                    /\ UNCHANGED loopVars
               ELSE EndLink("Success", None)
       ELSE /\ ~UniqueViolation(db, Link.url)
            /\ db' = InsertRow(db, nextId, Link.url, cur)
            /\ LET story  == [id |-> nextId, url |-> Link.url, content |-> cur]
                   result == [skipped |-> FALSE, story |-> story]
               IN  IF TooShortV3(result, opts)
                   THEN EndLink("SkippedTooShort", result)
                   ELSE EndLink("Success", result)
    /\ UNCHANGED <<variant, opts, scan, totalFound, links, pagesOpen, fetched,
                   delays>>
    /\ UNCHANGED pageVars
    /\ UNCHANGED calls

\* the INSERT fails (v3: also whenever the UNIQUE constraint rejects the row)
InsertFails ==
    /\ pc = "insert"
    /\ Throw("insert")
    /\ UNCHANGED <<scraped, variant, opts, scan, totalFound, links, db, nextId,
                   pagesOpen, fetched, delays>>
    /\ UNCHANGED pageVars
    /\ UNCHANGED calls

\* v2 lines 306-308: the record scrape has just written is deleted again
Delete ==
    /\ pc = "delete"
    /\ db' = DeleteStoryByUrl(db, Link.url)
    /\ EndLink("SkippedTooShort", None)
    /\ UNCHANGED <<scraped, variant, opts, scan, totalFound, links, nextId,
                   pagesOpen, fetched, delays>>
    /\ UNCHANGED pageVars
    /\ UNCHANGED calls

\* the DELETE fails
DeleteFails ==
    /\ pc = "delete"
    /\ Throw("delete")
    /\ UNCHANGED <<scraped, variant, opts, scan, totalFound, links, db, nextId,
                   pagesOpen, fetched, delays>>
    /\ UNCHANGED pageVars
    /\ UNCHANGED calls

\* v2 line 320, v3 lines 333-336: the setTimeout promise resolves
Delay ==
    /\ pc = "delay"
    /\ delays' = Append(delays, i)
    /\ Advance(results, errors)
    /\ UNCHANGED <<scraped, variant, opts, scan, totalFound, links, cur, db,
                   nextId, results, errors, batch, linkState, pagesOpen,
                   fetched>>
    /\ UNCHANGED pageVars
    /\ UNCHANGED calls

Next ==
    \/ ScrapeLinksRequest
    \/ DiscoverV2 \/ DiscoverV3 \/ DiscoverFails \/ BatchStart
    \/ Lookup \/ LookupFails \/ ScrapeLookup \/ ScrapeLookupFails
    \/ Load \/ LoadFails \/ Insert \/ InsertFails
    \/ Delete \/ DeleteFails \/ Delay

Spec == Init /\ [][Next]_vars

-----------------------------------------------------------------------------
(* Link discovery on its own, over pages and options that reach every branch
   of the filters *)

\* the maxLinks a caller passes to cut the list short
LinkCap == 2

LinkElems ==
    { Elem("/story/one", "Story One", "Story One"),
      Elem("c2", "Chapter Two", "Next: Chapter Two"),
      Elem("c2", "next", "next"),
      Elem("http://S.com/Img/A.JPG", "Picture story", "Picture story"),
      Elem("http://other.org/tale", "A tale of two", "A tale of two"),
      Elem("http://", "broken story", "broken story") }

LinkOptions(v) ==
    IF v = "v2"
    THEN {[DefaultOptions EXCEPT !.sameDomainOnly = sd, !.maxLinks = ml,
                                 !.filterPatterns = fp] :
              sd \in BOOLEAN, ml \in {LinkCap, DefaultMaxLinksV2},
              fp \in {<<>>, <<"Chapter">>, <<"One", NotAString>>}}
    ELSE {[DefaultOptions EXCEPT !.sameDomain = sd, !.maxLinks = ml,
                                 !.keywords = kw] :
              sd \in BOOLEAN, ml \in {LinkCap, DefaultMaxLinksV3},
              kw \in {<<>>, <<"Chapter">>}}

InitLinks ==
    /\ variant \in {"v2", "v3"}
    /\ opts \in LinkOptions(variant)
    /\ scan \in SeqsUpTo(LinkElems, MaxScan)
    /\ db = {}
    /\ nextId = 1
    /\ InitRun

NextLinks ==
    \/ ScrapeLinksRequest
    \/ DiscoverV2 \/ DiscoverThrowsV2 \/ DiscoverV3 \/ DiscoverFails

SpecLinks == InitLinks /\ [][NextLinks]_vars

-----------------------------------------------------------------------------
(* The pipeline on pages with links to another site and more links than
   maxLinks lets through *)

CrawlElems ==
    { Elem("/story/one", "Story One", "Story One"),
      Elem("http://S.com/c2", "Chapter Two", "Next: Chapter Two"),
      Elem("c3", "Chapter Three", "Chapter Three"),
      Elem("http://other.org/tale", "A tale of two", "A tale of two") }

CrawlOptions(v) ==
    IF v = "v2"
    THEN {[DefaultOptions EXCEPT !.sameDomainOnly = sd, !.maxLinks = ml,
                                 !.minContentLength = MinLen] :
              sd \in BOOLEAN, ml \in {LinkCap, DefaultMaxLinksV2}}
    ELSE {[DefaultOptions EXCEPT !.sameDomain = sd, !.maxLinks = ml] :
              sd \in BOOLEAN, ml \in {LinkCap, DefaultMaxLinksV3}}

InitCrawl ==
    /\ variant \in {"v2", "v3"}
    /\ opts \in CrawlOptions(variant)
    /\ scan \in SeqsUpTo(CrawlElems, MaxPipeScan)
    /\ db = {}
    /\ nextId = 1
    /\ InitRun

SpecCrawl == InitCrawl /\ [][Next]_vars

-----------------------------------------------------------------------------
(* Properties *)

Terminal(st) ==
    st \in {"Success", "SkippedDuplicate", "SkippedTooShort", "Failed"}

LinkIdx == 1..Len(links)

CountState(st) == Cardinality({k \in LinkIdx : linkState[k] = st})

\* the three counts the run returns
Counts ==
    IF variant = "v2" THEN summary
    ELSE [successful |-> batch.successful, skipped |-> batch.skipped,
          failed |-> batch.failed]

\* C1: when the run returns, every link of the list has been counted in
\* exactly one of successful, skipped and failed: the three counts are the
\* numbers of links that ended in each state and add up to the list's length
C1_CountsPartitionLinks ==
    pc = "done" =>
        /\ Counts.successful + Counts.skipped + Counts.failed = Len(links)
        /\ Counts.successful = CountState("Success")
        /\ Counts.skipped = CountState("SkippedDuplicate")
                            + CountState("SkippedTooShort")
        /\ Counts.failed = CountState("Failed")

\* a v2 run over three links has returned with one link of each kind
C1_Witness ==
    /\ pc = "done" /\ variant = "v2" /\ Len(links) = 3
    /\ summary = [successful |-> 1, skipped |-> 1, failed |-> 1]

\* C2 as stated: a link whose URL has a stored record when its lookup runs
\* ends as skipped, nothing is loaded for it and storage is unchanged
C2_StoredLinkEndsSkipped ==
    [][(pc = "lookup" /\ RowsOf(db, Link.url) # {}) =>
          /\ linkState'[i + 1] = "SkippedDuplicate"
          /\ fetched' = fetched
          /\ db' = db]_vars

\* C2, amended: such a link ends as skipped when the lookup returns and as
\* failed when the lookup itself raises an error; either way the renderer is
\* not asked to load the URL, no page is opened and storage is unchanged
C2_StoredLinkNeverLoaded ==
    [][(pc = "lookup" /\ RowsOf(db, Link.url) # {}) =>
          /\ \/ linkState'[i + 1] = "SkippedDuplicate"
             \/ LookupFails /\ linkState'[i + 1] = "Failed"
          /\ fetched' = fetched
          /\ pagesOpen' = pagesOpen
          /\ db' = db]_vars

\* a link with a stored record has been skipped as a duplicate, unloaded
C2_Witness ==
    \E k \in LinkIdx :
        /\ linkState[k] = "SkippedDuplicate"
        /\ RowsOf(db, links[k].url) # {}
        /\ \A m \in 2..Len(fetched) : fetched[m] # links[k].url

\* C3: in v2, once the loop has moved past a link for which scrape returned
\* content shorter than minContentLength, the link has ended as skipped
\* (content_too_short), not successful, and storage holds no record of its URL
C3_TooShortLeavesNoRecord ==
    variant = "v2" =>
        \A k \in LinkIdx :
            (k <= i /\ scraped[k] # None /\ TooShortV2(scraped[k], opts)) =>
                /\ linkState[k] = "SkippedTooShort"
                /\ RowsOf(db, links[k].url) = {}

\* the failures counted so far
FailedSoFar == IF variant = "v2" THEN Len(errors) ELSE batch.failed

\* how far the body of the loop has got
Rank(p) ==
    CASE p = "request" -> -1
      [] p = "start" -> 0 [] p = "batch" -> 1 [] p = "lookup" -> 2
      [] p = "scrape" -> 3 [] p = "load" -> 4 [] p = "insert" -> 5
      [] p = "delete" -> 6 [] p = "delay" -> 7 [] OTHER -> 8

\* grows with every step of a run
Progress == 10 * i + Rank(pc)

\* the error of a link left it where the catch block leaves it: counted as
\* failed, with the loop on a link of the list or returned at its end
C4_FailuresCounted ==
    /\ pc = "threw" => links = <<>>
    /\ FailedSoFar = CountState("Failed")
    /\ variant = "v2" =>
          \A k \in LinkIdx :
              linkState[k] = "Failed" =>
                  Cardinality({m \in 1..Len(errors) :
                                   errors[m].url = links[k].url}) = 1
    /\ pc \in {"lookup", "scrape", "load", "insert", "delete", "delay"} =>
          i < Len(links)
    /\ pc = "done" =>
          /\ i = Len(links) \/ links = <<>>
          /\ \A k \in LinkIdx : Terminal(linkState[k])

\* C4: an error raised while a link is processed never leaves the loop: the
\* run throws only before the first link, every failed link is counted as
\* failed exactly once, every step brings the run nearer to the end of the
\* list (no link is repeated, none blocks the loop), and when the run returns
\* every link of the list has been processed
C4_ErrorsStayWithTheirLink ==
    /\ []C4_FailuresCounted
    /\ [][Progress' > Progress]_vars

\* a run has returned normally although its first link failed, and a later
\* link was still scraped successfully
C4_Witness ==
    /\ pc = "done" /\ Len(links) >= 2
    /\ linkState[1] = "Failed"
    /\ linkState[Len(links)] = "Success"
    /\ FailedSoFar = 1

\* C5: links are processed one at a time in list order: at most one link is
\* Fetching, every link before the current one has reached a terminal state,
\* every link after it is still Pending, and a lookup starts on a Pending link
\* with the records of every earlier successful link in storage
C5_OneLinkAtATime ==
    /\ Cardinality({k \in LinkIdx : linkState[k] = "Fetching"}) <= 1
    /\ \A k \in LinkIdx :
          /\ k <= i => Terminal(linkState[k])
          /\ k > i + 1 => linkState[k] = "Pending"
          /\ linkState[k] = "Fetching" => k = i + 1
    /\ pc \in {"lookup", "scrape"} /\ i < Len(links) =>
          /\ linkState[i + 1] \in {"Pending", "Fetching"}
          /\ \A k \in 1..i :
                linkState[k] = "Success" => RowsOf(db, links[k].url) # {}

\* the second link is being looked up after the first one was persisted
C5_Witness ==
    /\ pc = "lookup" /\ i = 1 /\ Len(links) >= 2
    /\ linkState[1] = "Success" /\ linkState[2] = "Pending"
    /\ RowsOf(db, links[1].url) # {}

IsFailed(st) == st = "Failed"
IsKept(st) == st \in {"Success", "SkippedDuplicate", "SkippedTooShort"}

\* the indices of the links that ended Success or Skipped, in list order
KeptIdx == SelectSeq([k \in LinkIdx |-> k], LAMBDA k : IsKept(linkState[k]))

\* the indices of the links that ended Failed, in list order
FailedIdx ==
    SelectSeq([k \in LinkIdx |-> k], LAMBDA k : IsFailed(linkState[k]))

StatusOf(st) == IF st = "Success" THEN "success" ELSE "skipped"

\* C6 as stated: the results of a v2 run hold one entry for every processed
\* link, failed ones included, in the order of the list
C6_ResultsHoldEveryLink ==
    (variant = "v2" /\ pc = "done") =>
        /\ Len(results) = Len(links)
        /\ \A k \in LinkIdx : results[k].url = links[k].url

\* C6, amended: results holds exactly one entry for every link that ended
\* Success or Skipped, in list order and with that status; a Failed link has
\* no entry in results: it has exactly one in errors, also in list order
C6_ResultsAndErrorsSplitLinks ==
    variant = "v2" =>
        LET kept == KeptIdx
            bad  == FailedIdx
        IN  /\ Len(results) = Len(kept)
            /\ \A m \in 1..Len(kept) :
                  /\ results[m].url = links[kept[m]].url
                  /\ results[m].status = StatusOf(linkState[kept[m]])
            /\ Len(errors) = Len(bad)
            /\ \A m \in 1..Len(bad) : errors[m].url = links[bad[m]].url
            /\ pc = "done" => Len(results) + Len(errors) = Len(links)

\* a v2 run has returned with a failed link between two links of results
C6_Witness ==
    /\ variant = "v2" /\ pc = "done" /\ Len(links) = 3
    /\ IsKept(linkState[1]) /\ linkState[2] = "Failed" /\ IsKept(linkState[3])
    /\ Len(results) = 2 /\ Len(errors) = 1

\* the delay has been waited after the link of 0-based index k
Waited(k) == \E m \in 1..Len(delays) : delays[m] = k

\* C7: in v2, when the loop is on its next link, the delay has been waited
\* after every earlier link that ended Success or Failed
C7_DelayAfterSuccessAndFailure ==
    (variant = "v2" /\ pc \in {"lookup", "load", "insert", "delete"}) =>
        \A k \in 1..i :
            linkState[k] \in {"Success", "Failed"} => Waited(k - 1)

Occurrences(q, x) == Cardinality({m \in 1..Len(q) : q[m] = x})

\* C8 as stated: within a v2 run no URL is loaded more than once
C8_NoUrlFetchedTwice ==
    variant = "v2" =>
        \A m \in 1..Len(fetched) : Occurrences(fetched, fetched[m]) = 1

\* the URLs the crawl loop has loaded, the source page's load left out
LoopFetches == SubSeq(fetched, 2, Len(fetched))

C8_EachLinkOnce ==
    variant = "v2" =>
        /\ \A a, b \in LinkIdx : links[a].url = links[b].url => a = b
        /\ \A m \in 1..Len(LoopFetches) :
              /\ Occurrences(LoopFetches, LoopFetches[m]) = 1
              /\ \E k \in LinkIdx :
                    /\ links[k].url = LoopFetches[m]
                    /\ linkState[k] # "Pending"
        /\ \A m \in 1..Len(fetched) :
              Occurrences(fetched, fetched[m]) > 1 => fetched[m] = PageUrl
        /\ \A k \in LinkIdx :
              Occurrences([m \in 1..Len(results) |-> results[m].url]
                              \o [m \in 1..Len(errors) |-> errors[m].url],
                          links[k].url)
                  = IF Terminal(linkState[k]) THEN 1 ELSE 0

\* C8, amended: the list handed to the crawl loop holds each URL once, the
\* loop loads each link at most once and a link that has reached a terminal
\* state is never processed again; only the source page's own URL, loaded
\* once for discovery, is loaded a second time when it is among its links
C8_NoLinkFetchedTwice ==
    /\ []C8_EachLinkOnce
    /\ [][\A k \in LinkIdx :
             Terminal(linkState[k]) => linkState'[k] = linkState[k]]_vars

\* two anchors of one URL were scanned and the URL was loaded only once
C8_Witness ==
    /\ variant = "v2" /\ pc = "done"
    /\ \E a, b \in 1..Len(scan) :
          a # b /\ scan[a].href = "/story/one" /\ scan[b].href = "/story/one"
    /\ Occurrences(fetched, "http://s.com/story/one") = 1

\* the number of pieces of content.split(/\s+/): one more than the runs of
\* whitespace in content
WordCount(content) ==
    1 + Cardinality({k \in 1..Len(content) :
                        /\ IsSpace(CharAt(content, k))
                        /\ k = 1 \/ ~IsSpace(CharAt(content, k - 1))})

\* C9: at every state, no record written by the run has content that is too
\* short (v2: fewer characters than minContentLength; v3: fewer words than
\* minWordCount)
C9_NoStubInStorage ==
    \A row \in db :
        row.fresh =>
            IF variant = "v2" THEN ~TooShortV2(row.content, opts)
            ELSE WordCount(row.content) >= opts.minWordCount

\* link discovery has returned its list
Discovered == pc \notin {"request", "rejected", "start", "threw", "typeError"}

\* the scanned element resolves to an absolute URL
Resolves(el) == el.href # "" /\ ~Malformed(el.href)

UrlOf(el) == ResolveUrl(el.href, PageUrl)

\* the scanned element resolves and passes the filters of the revision run
Passes(el) ==
    IF variant = "v2"
    THEN /\ Resolves(el)
         /\ KeepLinkV2(Head(AllLinksV2(<<el>>, PageUrl)), opts,
                       Hostname(PageUrl))
    ELSE LinksV3(<<el>>, PageUrl, opts) # <<>>

\* position in the raw scan of the first element with this URL
FirstInScan(url) ==
    CHOOSE k \in 1..Len(scan) :
        /\ Resolves(scan[k]) /\ UrlOf(scan[k]) = url
        /\ \A m \in 1..(k - 1) : ~(Resolves(scan[m]) /\ UrlOf(scan[m]) = url)

\* position in the raw scan of the first element with this URL that passes
FirstPassing(url) ==
    CHOOSE k \in 1..Len(scan) :
        /\ Passes(scan[k]) /\ UrlOf(scan[k]) = url
        /\ \A m \in 1..(k - 1) : ~(Passes(scan[m]) /\ UrlOf(scan[m]) = url)

NoTwoWithOneUrl == \A a, b \in LinkIdx : links[a].url = links[b].url => a = b

\* C10 as stated: the returned list has no two entries of one URL, and its
\* entries are in the order in which their URLs first occurred in the raw scan
C10_OrderOfFirstRawOccurrence ==
    Discovered =>
        /\ NoTwoWithOneUrl
        /\ \A a, b \in LinkIdx :
              a < b => FirstInScan(links[a].url) < FirstInScan(links[b].url)

\* C10, amended: the returned list has no two entries of one URL, and its
\* entries are in the order in which their URLs first occurred among the
\* scanned links that pass the filter (an earlier anchor of the same URL
\* that the filter rejects does not give the URL its place)
C10_OrderOfFirstPassingOccurrence ==
    Discovered =>
        /\ NoTwoWithOneUrl
        /\ \A a, b \in LinkIdx :
              a < b => FirstPassing(links[a].url) < FirstPassing(links[b].url)

\* discovery has returned two links from a scan in which two passing anchors
\* shared a URL
C10_Witness ==
    /\ Discovered /\ Len(links) >= 2
    /\ \E a, b \in 1..Len(scan) :
          /\ a < b /\ Passes(scan[a]) /\ Passes(scan[b])
          /\ UrlOf(scan[a]) = UrlOf(scan[b])

-----------------------------------------------------------------------------
(* Link discovery: what is kept, dropped and counted *)

\* the text fields link discovery records for a scanned element
TextOf(el) == Trim(el.text)
ParentTextOf(el) == Trim(el.parentText)

\* C11: the entry deduplication keeps for a URL carries the text (and, in v2,
\* the parentText) of the earliest scanned link of that URL that passes the
\* filter
C11_KeptEntryIsFirstSeen ==
    Discovered =>
        \A k \in LinkIdx :
            LET first == scan[FirstPassing(links[k].url)]
            IN  /\ links[k].text = TextOf(first)
                /\ variant = "v2" => links[k].parentText = ParentTextOf(first)

\* is the same-domain option of the revision run on
SameDomainOn == IF variant = "v2" THEN opts.sameDomainOnly ELSE opts.sameDomain

\* C12: with sameDomainOnly (v2) / sameDomain (v3) true, every link discovery
\* returns has the hostname of the source page URL, and every URL a v2 run
\* hands to the renderer is on the source page's domain
C12_ReturnedLinksOnSourceDomain ==
    SameDomainOn =>
        /\ \A k \in LinkIdx : Hostname(links[k].url) = Hostname(PageUrl)
        /\ variant = "v2" =>
              \A m \in 1..Len(fetched) :
                  Hostname(fetched[m]) = Hostname(PageUrl)

\* a v2 run with sameDomainOnly has returned after crawling a page that links
\* to another site and, through an upper-case host name, to itself
C12_Witness ==
    /\ variant = "v2" /\ pc = "done" /\ SameDomainOn
    /\ \E a, b \in 1..Len(scan) :
          /\ scan[a].href = "http://other.org/tale"
          /\ scan[b].href = "http://S.com/c2"
    /\ Occurrences(fetched, "http://s.com/c2") = 1

\* C13: no link discovery returns (v2 or v3) has a URL that contains an
\* excludePatterns entry when both are compared without regard to letter case
C13_NoExcludedUrlReturned ==
    Discovered =>
        \A k \in LinkIdx :
            \A n \in DOMAIN opts.excludePatterns :
                ~Includes(ToLowerCase(links[k].url),
                          ToLowerCase(opts.excludePatterns[n]))

\* the URLs of the scanned links that pass the filter
PassingUrls ==
    {UrlOf(scan[k]) : k \in {m \in 1..Len(scan) : Passes(scan[m])}}

\* the number of passing URLs that first occur before this one
EarlierUrls(url) ==
    Cardinality({u \in PassingUrls : FirstPassing(u) < FirstPassing(url)})

\* link discovery has just returned its list
JustDiscovered == Discovered /\ i = 0 /\ pc \in {"batch", "lookup", "done"}

\* the list is the first min(maxLinks, n) of the n deduplicated filtered links
FirstOfFiltered ==
    /\ Len(links) = Min(opts.maxLinks, Cardinality(PassingUrls))
    /\ \A k \in LinkIdx :
          /\ links[k].url \in PassingUrls
          /\ EarlierUrls(links[k].url) = k - 1

\* neither the list nor the links the crawl loop loads exceed maxLinks
NeverMoreThanMaxLinks ==
    /\ Len(links) <= opts.maxLinks
    /\ Len(LoopFetches) <= opts.maxLinks
    /\ \A m \in 1..Len(LoopFetches) :
          \E k \in LinkIdx : k <= opts.maxLinks /\ links[k].url = LoopFetches[m]

\* C14: the list discovery returns is the first min(maxLinks, n) entries of
\* the n deduplicated filtered links, in their order; the crawl loop works on
\* that list as returned, and neither the list nor the number of links the
\* loop loads exceeds maxLinks
C14_FirstMaxLinksReturned ==
    /\ [](JustDiscovered => FirstOfFiltered)
    /\ [][Discovered => links' = links]_vars
    /\ []NeverMoreThanMaxLinks

\* a run has returned after loading maxLinks links of a page with more
\* qualifying links than that
C14_Witness ==
    /\ pc = "done"
    /\ Cardinality(PassingUrls) > opts.maxLinks
    /\ Len(links) = opts.maxLinks
    /\ Len(LoopFetches) = opts.maxLinks

\* the scanned elements that carry an href / whose href resolves
WithHref == {k \in 1..Len(scan) : scan[k].href # ""}
Resolving == {k \in 1..Len(scan) : Resolves(scan[k])}

\* no returned link comes from an href that does not resolve
OnlyResolvedReturned ==
    \A k \in LinkIdx :
        \E m \in Resolving : UrlOf(scan[m]) = links[k].url

\* C15 as stated: a link whose href does not resolve is not returned, and the
\* raw total of v2 (totalLinksFound) counts it
C15_MalformedCountedInRawTotal ==
    Discovered =>
        /\ OnlyResolvedReturned
        /\ variant = "v2" => totalFound = Cardinality(WithHref)

\* discovery has returned, does not count the unresolvable links and returns
\* none of them
C15_MalformedNowhere ==
    Discovered =>
        /\ OnlyResolvedReturned
        /\ variant = "v2" => totalFound = Cardinality(Resolving)
        /\ variant = "v3" =>
              totalFound = Cardinality({m \in 1..Len(scan) : Passes(scan[m])})

\* the only errors of link discovery: the page load, a filterPatterns entry
DiscoveryError == DiscoverFails \/ DiscoverThrowsV2

\* C15, amended: a link whose href does not resolve is dropped silently: the
\* scan of a page that holds one returns unless the page load or the include
\* patterns fail, it is never among the returned links, and it is counted
\* nowhere: totalLinksFound (v2) counts only the links whose href resolved
C15_MalformedDroppedUncounted ==
    /\ []C15_MalformedNowhere
    /\ [][(pc = "start" /\ Resolving # WithHref /\ ~DiscoveryError)
             => Discovered']_vars

\* v2 discovery has returned links of a page that also holds an href that
\* does not resolve
C15_Witness ==
    /\ variant = "v2" /\ Discovered /\ Len(links) >= 1
    /\ Resolving # WithHref
    /\ totalFound < Len(scan)

\* C16: when a configuration error is reported (the request has no url, a
\* filterPatterns entry is unusable), the renderer has loaded no page, none is
\* open and storage is untouched
C16_ConfigErrorBeforeAnyFetch ==
    pc \in {"rejected", "typeError"} =>
        /\ fetched = <<>>
        /\ pagesOpen = 0
        /\ db = {}

-----------------------------------------------------------------------------
(* The document tree of a page: elements in document order, each with its
   tag, one class, id, an enclosing element (as the selectors name it), its
   own text and the texts of the paragraphs it holds *)

Element(tag, class, id, within, text, ps) ==
    [tag |-> tag, class |-> class, id |-> id, within |-> within,
     text |-> text, ps |-> ps]

\* a selector of the forms the extractors use: tag, .class, #id, tag.class
\* and "ancestor tag"; an empty field does not constrain
Sel(tag, class, id, within) ==
    [tag |-> tag, class |-> class, id |-> id, within |-> within]

\* does the element match the selector
SelMatches(el, sel) ==
    /\ sel.tag = "" \/ el.tag = sel.tag
    /\ sel.class = "" \/ el.class = sel.class
    /\ sel.id = "" \/ el.id = sel.id
    /\ sel.within = "" \/ el.within = sel.within

\* $(selector): the matching elements, in document order
Query(elements, sel) == SelectSeq(elements, LAMBDA el : SelMatches(el, sel))

RECURSIVE JoinLines(_)
\* the text nodes of the paragraphs of an element, each on a line of its own
JoinLines(ps) ==
    IF ps = <<>> THEN "" ELSE "\n" \o Head(ps) \o JoinLines(Tail(ps))

\* $el.text() of one element: its own text and that of its paragraphs
ElementText(el) == el.text \o JoinLines(el.ps)

RECURSIVE TextOfAll(_)
\* $(selector).text(): the texts of all matched elements, concatenated
TextOfAll(els) ==
    IF els = <<>> THEN "" ELSE ElementText(Head(els)) \o TextOfAll(Tail(els))

\* $(selector).first().text().trim()
FirstText(elements, sel) ==
    LET els == Query(elements, sel)
    IN  IF els = <<>> THEN "" ELSE Trim(ElementText(Head(els)))

-----------------------------------------------------------------------------
(* cleanTitle: v2 lines 1033-1052, v3 lines 719-738 *)

\* the en dash and the em dash of the character class [-|<en dash><em dash>],
\* written with ASCII stand-ins
EnDash == "~"
EmDash == "^"

Separators == {"-", "|", EnDash, EmDash}

AllSpace(t, from, to) == \A k \in from..to : IsSpace(CharAt(t, k))

\* \s*.+$ matches t from position k: white space, then at least one
\* character, none of them a line break, up to the end
DotPlusToEnd(t, k) ==
    \E m \in k..Len(t) :
        /\ AllSpace(t, k, m - 1)
        /\ \A q \in m..Len(t) : CharAt(t, q) # "\n"

\* /\s*[seps]\s*.+$/ matches t from position k
SeparatorAt(t, k, seps) ==
    \E j \in k..Len(t) :
        /\ AllSpace(t, k, j - 1)
        /\ CharAt(t, j) \in seps
        /\ DotPlusToEnd(t, j + 1)

\* t.replace(re, '') for a pattern anchored at the end: t is cut where the
\* leftmost match starts
CutAt(t, starts) ==
    IF starts = {} THEN t
    ELSE SubSeq(t, 1, (CHOOSE k \in starts : \A m \in starts : k <= m) - 1)

\* title.replace(/\s*[seps]\s*.+$/, '')
RemoveAfterSeparator(t, seps) ==
    CutAt(t, {k \in 1..Len(t) : SeparatorAt(t, k, seps)})

RoleMarkers == <<"story", "chapter", "part">>

RECURSIVE SkipSpace(_, _)
\* the first position of t at or after k that holds no white space
SkipSpace(t, k) ==
    IF k <= Len(t) /\ IsSpace(CharAt(t, k)) THEN SkipSpace(t, k + 1) ELSE k

\* title.replace(/^(story|chapter|part)\s*:?\s*/i, '')
StripRoleMarker(t) ==
    LET hits == {n \in DOMAIN RoleMarkers :
                    StartsWith(ToLowerCase(t), RoleMarkers[n])}
    IN  IF hits = {} THEN t
        ELSE LET word  == RoleMarkers[CHOOSE n \in hits : \A m \in hits : n <= m]
                 colon == SkipSpace(t, Len(word) + 1)
                 after == IF colon <= Len(t) /\ CharAt(t, colon) = ":"
                          THEN colon + 1 ELSE colon
             IN  SubSeq(t, SkipSpace(t, after), Len(t))

Qualifiers == <<"read online", "free", "story">>

\* /\s*-\s*(read online|free|story)$/i matches t from position k
QualifierAt(t, k) ==
    \E j \in k..Len(t) :
        /\ AllSpace(t, k, j - 1)
        /\ CharAt(t, j) = "-"
        /\ \E m \in (j + 1)..(Len(t) + 1) :
              /\ AllSpace(t, j + 1, m - 1)
              /\ ArrIncludes(Qualifiers, ToLowerCase(SubSeq(t, m, Len(t))))

\* title.replace(/\s*-\s*(read online|free|story)$/i, '')
StripQualifier(t) == CutAt(t, {k \in 1..Len(t) : QualifierAt(t, k)})

\* /\s*\(.*\)$/ matches t from position k
ParentheticalAt(t, k) ==
    \E j \in k..(Len(t) - 1) :
        /\ AllSpace(t, k, j - 1)
        /\ CharAt(t, j) = "("
        /\ CharAt(t, Len(t)) = ")"
        /\ \A q \in (j + 1)..(Len(t) - 1) : CharAt(t, q) # "\n"

\* title.replace(/\s*\(.*\)$/, '')
StripParenthetical(t) == CutAt(t, {k \in 1..Len(t) : ParentheticalAt(t, k)})

\* cleanTitle(title)
CleanTitle(title) ==
    IF title = "" THEN ""
    ELSE LET cut  == RemoveAfterSeparator(title, Separators)
             pipe == RemoveAfterSeparator(cut, {"|"})
         IN  Trim(StripParenthetical(StripQualifier(StripRoleMarker(pipe))))

-----------------------------------------------------------------------------
(* extractTitle: v2 lines 367-411, v3 lines 356-379 *)

PrimaryTitleSelectors ==
    << Sel("h1", "story-title", "", ""), Sel("h1", "post-title", "", ""),
       Sel("h1", "chapter-title", "", ""),
       Sel("", "story-title", "", ""), Sel("", "post-title", "", ""),
       Sel("", "chapter-title", "", ""), Sel("", "entry-title", "", ""),
       Sel("h1", "title", "", ""), Sel("h1", "", "", ".title"),
       Sel("h1", "", "", "#title"),
       Sel("h1", "", "", "article"), Sel("h1", "", "", "main"),
       Sel("h1", "", "", ".content") >>

HeadingSelectors ==
    << Sel("h1", "", "", ""), Sel("h2", "", "", ""), Sel("h3", "", "", "") >>

TitleSelectorsV3 ==
    << Sel("h1", "", "", ""), Sel("", "title", "", ""),
       Sel("", "story-title", "", ""), Sel("", "post-title", "", ""),
       Sel("", "entry-title", "", ""), Sel("title", "", "", ""),
       Sel("", "headline", "", ""), Sel("", "article-title", "", "") >>

UntitledV2 == "Untitled Story"
UntitledV3 == "Untitled"

\* text && text.length > 3 && text.length < 200
TitleLength(text) == text # "" /\ Len(text) > 3 /\ Len(text) < 200

\* the first selector of the list, in order, whose first match has a text
\* that the test accepts: 0 if there is none
FirstHit(elements, sels, v) ==
    LET Accepts(n) ==
            /\ Query(elements, sels[n]) # <<>>
            /\ IF v = "v2" THEN TitleLength(FirstText(elements, sels[n]))
               ELSE FirstText(elements, sels[n]) # ""
        hits == {n \in DOMAIN sels : Accepts(n)}
    IN  IF hits = {} THEN 0 ELSE CHOOSE n \in hits : \A m \in hits : n <= m

\* $('title').text().trim()
PageTitle(elements) ==
    Trim(TextOfAll(Query(elements, Sel("title", "", "", ""))))

\* v2 extractTitle($)
ExtractTitleV2(elements) ==
    LET sels == PrimaryTitleSelectors \o HeadingSelectors
        hit  == FirstHit(elements, sels, "v2")
        pageTitle    == PageTitle(elements)
        cleanedTitle == CleanTitle(pageTitle)
    IN  IF hit # 0 THEN CleanTitle(FirstText(elements, sels[hit]))
        ELSE IF /\ pageTitle # "" /\ Len(pageTitle) > 3
                /\ Len(cleanedTitle) > 3 /\ Len(cleanedTitle) < 200
             THEN cleanedTitle
        ELSE UntitledV2

\* v3 extractTitle($)
ExtractTitleV3(elements) ==
    LET hit == FirstHit(elements, TitleSelectorsV3, "v3")
        pageTitle == PageTitle(elements)
    IN  IF hit # 0 THEN CleanTitle(FirstText(elements, TitleSelectorsV3[hit]))
        ELSE IF pageTitle # "" THEN CleanTitle(pageTitle)
        ELSE UntitledV3

-----------------------------------------------------------------------------
(* extractContent of v2: lines 413-620 *)

UnwantedTags == {"script", "style", "nav", "header", "footer"}

UnwantedClasses ==
    {"navigation", "nav", "menu", "sidebar", "advertisement", "ad", "ads",
     "advert", "social", "share", "sharing", "comments", "comment-section",
     "related", "recommended", "breadcrumb", "breadcrumbs", "tags",
     "tag-list", "author-bio", "author-info", "newsletter", "subscription",
     "popup", "modal", "overlay"}

\* is the element, or the element it lies in, matched by a selector of the set
Matched(el, tags, classes) ==
    \/ el.tag \in tags \/ el.class \in classes
    \/ el.within \in tags \/ el.within \in {"." \o c : c \in classes}

\* removeUnwantedElements($): the elements that stay in the tree
RemoveUnwantedElements(elements) ==
    SelectSeq(elements,
              LAMBDA el : ~Matched(el, UnwantedTags, UnwantedClasses))

ContentSelectorsV2 ==
    << Sel("article", "", "", ""),
       Sel("", "story-content", "", ""), Sel("", "story-text", "", ""),
       Sel("", "story-body", "", ""),
       Sel("", "chapter-content", "", ""), Sel("", "chapter-text", "", ""),
       Sel("", "chapter-body", "", ""),
       Sel("", "post-content", "", ""), Sel("", "post-body", "", ""),
       Sel("", "post-text", "", ""),
       Sel("", "content", "", ""), Sel("", "main-content", "", ""),
       Sel("main", "", "", ""),
       Sel("", "entry-content", "", ""),
       Sel("", "", "content", ""),
       Sel("", "text-content", "", "") >>

\* text.split('\n').filter(line => line.trim().length > 0).length: the
\* lines, each starting after a line break (or at the start) and ending
\* before the next one, that hold a character other than white space
NonEmptyLines(text) ==
    LET breaks == {k \in 1..Len(text) : CharAt(text, k) = "\n"}
        starts == {0} \cup breaks
        ends   == breaks \cup {Len(text) + 1}
        EndOf(a) == CHOOSE b \in ends : b > a /\ \A c \in ends : c > a => b <= c
    IN  Cardinality({a \in starts :
                        \E k \in (a + 1)..(EndOf(a) - 1) :
                            ~IsSpace(CharAt(text, k))})

\* avgLineLength < limit, where avgLineLength is text.length / lines.length,
\* or 0 when there is no line
AvgLineBelow(text, limit) ==
    LET lines == NonEmptyLines(text)
    IN  IF lines > 0 THEN Len(text) < limit * lines ELSE 0 < limit

ClassStoryKeywords == <<"story", "chapter", "content", "text", "body", "post">>
ClassNavKeywords == <<"nav", "menu", "sidebar", "footer", "header">>

\* how many keywords of the list the string includes
KeywordHits(className, keywords) ==
    Cardinality({n \in DOMAIN keywords : Includes(className, keywords[n])})

\* scoreContentElement($el, text), from the class and the number of
\* paragraphs of $el
ScoreContent(className, paragraphs, text) ==
    Len(text) + paragraphs * 50
    + 100 * KeywordHits(className, ClassStoryKeywords)
    - 200 * KeywordHits(className, ClassNavKeywords)
    - (IF AvgLineBelow(text, 30) THEN 100 ELSE 0)

ScoreContentElement(el, text) == ScoreContent(el.class, Len(el.ps), text)

RECURSIVE Candidates(_, _)
\* the elements the loops over primarySelectors visit, in the order visited
Candidates(elements, sels) ==
    IF sels = <<>> THEN <<>>
    ELSE Query(elements, Head(sels)) \o Candidates(elements, Tail(sels))

RECURSIVE BestCandidate(_, _, _)
\* v2 lines 434-448: bestContent after the candidates have been visited
BestCandidate(cands, bestContent, bestScore) ==
    IF cands = <<>> THEN bestContent
    ELSE LET text  == Trim(ElementText(Head(cands)))
             score == ScoreContentElement(Head(cands), text)
         IN  IF score > bestScore /\ Len(text) > 100
             THEN BestCandidate(Tail(cands), text, score)
             ELSE BestCandidate(Tail(cands), bestContent, bestScore)

\* stage 1: the best match of the content selectors
FromSelectors(elements) ==
    BestCandidate(Candidates(elements, ContentSelectorsV2), "", 0)

RECURSIVE Paragraphs(_)
\* $('p'): the trimmed texts of the paragraphs, in document order
Paragraphs(elements) ==
    IF elements = <<>> THEN <<>>
    ELSE LET el == Head(elements)
         IN  (IF el.tag = "p" THEN <<Trim(ElementText(el))>>
              ELSE [n \in DOMAIN el.ps |-> Trim(el.ps[n])])
             \o Paragraphs(Tail(elements))

RECURSIVE ParagraphGroups(_, _)
\* v2 lines 527-542: the groups of consecutive paragraphs of more than 20
\* characters
ParagraphGroups(ps, currentGroup) ==
    IF ps = <<>>
    THEN IF Len(currentGroup) > 0 THEN <<currentGroup>> ELSE <<>>
    ELSE IF Len(Head(ps)) > 20
         THEN ParagraphGroups(Tail(ps), Append(currentGroup, Head(ps)))
    ELSE IF Len(currentGroup) > 0
         THEN <<currentGroup>> \o ParagraphGroups(Tail(ps), <<>>)
    ELSE ParagraphGroups(Tail(ps), currentGroup)

RECURSIVE Join(_, _)
\* arr.join(sep)
Join(arr, sep) ==
    IF arr = <<>> THEN ""
    ELSE IF Len(arr) = 1 THEN arr[1]
    ELSE arr[1] \o sep \o Join(Tail(arr), sep)

RECURSIVE BestGroup(_, _, _)
\* v2 lines 545-553: the content of the best paragraph group
BestGroup(groups, bestContent, bestScore) ==
    IF groups = <<>> THEN bestContent
    ELSE LET content == Join(Head(groups), "\n\n")
             score   == Len(content) + Len(Head(groups)) * 20
         IN  IF score > bestScore
             THEN BestGroup(Tail(groups), content, score)
             ELSE BestGroup(Tail(groups), bestContent, bestScore)

\* stage 2: extractFromParagraphs($)
ExtractFromParagraphs(elements) ==
    BestGroup(ParagraphGroups(Paragraphs(elements), <<>>), "", 0)

BoilerplateKeywords ==
    <<"nav", "menu", "sidebar", "footer", "header", "advertisement", "ad",
      "social", "share", "comment", "related", "recommended">>

\* isLikelyBoilerplate($el, text)
IsLikelyBoilerplate(el, text) ==
    \/ \E n \in DOMAIN BoilerplateKeywords :
          \/ Includes(ToLowerCase(el.class), BoilerplateKeywords[n])
          \/ Includes(ToLowerCase(el.id), BoilerplateKeywords[n])
    \/ AvgLineBelow(text, 20) /\ NonEmptyLines(text) > 5

BlockTags == {"div", "section", "article", "main"}

RECURSIVE LargestBlock(_, _)
\* v2 lines 563-576: bestContent after the blocks have been visited
LargestBlock(blocks, bestContent) ==
    IF blocks = <<>> THEN bestContent
    ELSE LET text == Trim(ElementText(Head(blocks)))
         IN  IF /\ ~IsLikelyBoilerplate(Head(blocks), text)
                /\ Len(text) > Len(bestContent) /\ Len(text) > 100
             THEN LargestBlock(Tail(blocks), text)
             ELSE LargestBlock(Tail(blocks), bestContent)

\* stage 3: findLargestTextBlock($)
FindLargestTextBlock(elements) ==
    LargestBlock(SelectSeq(elements, LAMBDA el : el.tag \in BlockTags), "")

RECURSIVE CollapseSpace(_, _, _)
\* content.replace(/\s+/g, ' '), for the characters from..to of t, computed
\* half by half: a run of white space leaves one space, where it starts
CollapseSpace(t, from, to) ==
    IF from > to THEN ""
    ELSE IF from = to
         THEN IF ~IsSpace(CharAt(t, from)) THEN CharAt(t, from)
              ELSE IF from > 1 /\ IsSpace(CharAt(t, from - 1)) THEN ""
              ELSE " "
    ELSE LET half == (from + to) \div 2
         IN  CollapseSpace(t, from, half) \o CollapseSpace(t, half + 1, to)

\* the copyright sign of the second pattern, written with an ASCII stand-in
CopyrightSign == "@"

LeadingMenuPhrases ==
    <<"home", "back to top", "skip to content", "menu", "navigation">>
CopyrightPhrases == <<"copyright", "all rights reserved", CopyrightSign>>
LeadingSharePhrases == <<"share", "like", "tweet", "pin">>

\* does the alternative match t at position k, letter case ignored
PhraseAt(t, k, phrase) ==
    /\ k + Len(phrase) - 1 <= Len(t)
    /\ ToLowerCase(SubSeq(t, k, k + Len(phrase) - 1)) = phrase

\* t.replace(/(a|b|...)/i, ''): the leftmost match, and at that place the
\* first alternative that matches, is taken out; anchored: only at the start
RemovePhrase(t, phrases, anchored) ==
    LET places == {k \in 1..(IF anchored THEN Min(1, Len(t)) ELSE Len(t)) :
                      \E n \in DOMAIN phrases : PhraseAt(t, k, phrases[n])}
    IN  IF places = {} THEN t
        ELSE LET k == CHOOSE x \in places : \A y \in places : x <= y
                 alts == {n \in DOMAIN phrases : PhraseAt(t, k, phrases[n])}
                 n == CHOOSE x \in alts : \A y \in alts : x <= y
             IN  SubSeq(t, 1, k - 1)
                 \o SubSeq(t, k + Len(phrases[n]), Len(t))

\* cleanContent(content)
CleanContent(content) ==
    IF content = "" THEN ""
    ELSE LET collapsed == Trim(CollapseSpace(content, 1, Len(content)))
             menu  == RemovePhrase(collapsed, LeadingMenuPhrases, TRUE)
             copy  == RemovePhrase(menu, CopyrightPhrases, FALSE)
             share == RemovePhrase(copy, LeadingSharePhrases, TRUE)
         IN  Trim(share)

\* v2 lines 451-459: the stages after the selectors: each replaces bestContent
\* when it is shorter than 200 characters
AfterParagraphs(elements, bestContent) ==
    IF Len(bestContent) < 200 THEN ExtractFromParagraphs(elements)
    ELSE bestContent

AfterLargestBlock(elements, bestContent) ==
    IF Len(bestContent) < 200 THEN FindLargestTextBlock(elements)
    ELSE bestContent

\* v2 extractContent($)
ExtractContentV2(elements) ==
    LET kept   == RemoveUnwantedElements(elements)
        stage1 == FromSelectors(kept)
        stage2 == AfterParagraphs(kept, stage1)
        stage3 == AfterLargestBlock(kept, stage2)
    IN  CleanContent(stage3)

-----------------------------------------------------------------------------
(* extractContent of v3: lines 381-449 *)

UnwantedTagsV3 == {"script", "style", "nav", "header", "footer"}
UnwantedClassesV3 ==
    {"sidebar", "menu", "navigation", "ads", "advertisement"}

ContentSelectorsV3 ==
    << Sel("", "story-content", "", ""), Sel("", "post-content", "", ""),
       Sel("", "entry-content", "", ""), Sel("", "article-content", "", ""),
       Sel("", "content", "", ""), Sel("article", "", "", ""),
       Sel("", "main-content", "", ""), Sel("", "", "content", ""),
       Sel("", "text", "", ""), Sel("main", "", "", "") >>

\* text.split(/[.!?]+/).length: one more than the runs of . ! ? in text
SentenceCount(text) ==
    1 + Cardinality({k \in 1..Len(text) :
                        /\ CharAt(text, k) \in {".", "!", "?"}
                        /\ k = 1 \/ CharAt(text, k - 1) \notin {".", "!", "?"}})

\* scoreContent(text)
ScoreContentV3(text) ==
    IF text = "" THEN 0
    ELSE LET wordCount     == WordCount(text)
             sentenceCount == SentenceCount(text)
         IN  wordCount
             + (IF /\ wordCount > 5 * sentenceCount
                   /\ wordCount < 30 * sentenceCount THEN 50 ELSE 0)
             - (IF wordCount < 50 THEN 100 ELSE 0)

RECURSIVE BestFirstMatch(_, _, _, _)
\* v3 lines 402-414: bestContent and bestScore after the selectors
BestFirstMatch(elements, sels, bestContent, bestScore) ==
    IF sels = <<>> THEN [content |-> bestContent, score |-> bestScore]
    ELSE LET text  == FirstText(elements, Head(sels))
             score == ScoreContentV3(text)
         IN  IF Query(elements, Head(sels)) # <<>> /\ score > bestScore
             THEN BestFirstMatch(elements, Tail(sels), text, score)
             ELSE BestFirstMatch(elements, Tail(sels), bestContent, bestScore)

NoContentFound == "No content found"

\* v3 extractContent($)
ExtractContentV3(elements) ==
    LET kept == SelectSeq(elements,
                    LAMBDA el : ~Matched(el, UnwantedTagsV3, UnwantedClassesV3))
        best == BestFirstMatch(kept, ContentSelectorsV3, "", 0)
        combinedText == Join(Paragraphs(kept), "\n\n")
        bestContent ==
            IF /\ best.content = "" \/ best.score < 100
               /\ ScoreContentV3(combinedText) > best.score
            THEN combinedText ELSE best.content
    IN  IF bestContent = "" THEN NoContentFound ELSE bestContent

-----------------------------------------------------------------------------
(* scrape, from the document tree to the record: v2 lines 133-141 and 160,
   v3 lines 164-172 and 196 (author and domain are left out) *)

\* longest sequence of elements of the pages explored
MaxElems == 2
\* most parts a title under cleaning is put together from
MaxTitleParts == 2

RECURSIVE Times(_, _)
\* s.repeat(n)
Times(s, n) == IF n = 0 THEN "" ELSE s \o Times(s, n - 1)

\* 120 characters in one line, 160 characters in eight short lines
Prose == Times("Once upon a time there was a story. ", 3) \o "And so on..."
Listing == Times("One more short line\n", 8)

\* the elements the pages are built from
PageElems ==
    { Element("h1", "story-title", "", "", "Moonlight - Read Online Free",
              <<>>),
      Element("h1", "", "", "", "(untitled draft)", <<>>),
      Element("h2", "", "", "", "Story: ", <<>>),
      Element("title", "", "", "", " | My Story Site", <<>>),
      Element("article", "story", "", "", Listing, <<>>),
      Element("td", "story-content", "", "", Prose, <<>>),
      Element("div", "", "main", "", "",
              <<Prose, "A paragraph of thirty characters.">>),
      Element("p", "", "", "", "A paragraph of thirty characters.", <<>>),
      Element("div", "nav", "", "", Prose, <<>>),
      Element("article", "page-header", "", "", Prose, <<>>),
      Element("div", "story-text", "", "",
              Prose \o " Copyright 2020 by the author", <<>>) }

TitleParts ==
    {"Story: ", "Chapter: One", "Moonlight", " - Read Online Free", " (draft)",
     " | My Site"}

RECURSIVE Concat(_)
Concat(parts) == IF parts = <<>> THEN "" ELSE Head(parts) \o Concat(Tail(parts))

Titles == {Concat(parts) : parts \in SeqsUpTo(TitleParts, MaxTitleParts)}

\* the record scrape builds from the three extractors' results
ExtractionResult(title, content) ==
    [title |-> title, content |-> content, wordCount |-> WordCount(content)]

\* v2 scrape, lines 134-141
ExtractV2 ==
    /\ pc = "content" /\ variant = "v2"
    /\ extracted' = <<ExtractionResult(ExtractTitleV2(doc.elements),
                                       ExtractContentV2(doc.elements))>>
    /\ pc' = "extracted"
    /\ UNCHANGED <<variant, opts, scan, totalFound, links, i, cur, db, nextId,
                   results, errors, batch, summary, linkState, pagesOpen,
                   fetched, delays, scraped, doc, cleaned, calls>>

\* v3 scrape, lines 165-172
ExtractV3 ==
    /\ pc = "content" /\ variant = "v3"
    /\ extracted' = <<ExtractionResult(ExtractTitleV3(doc.elements),
                                       ExtractContentV3(doc.elements))>>
    /\ pc' = "extracted"
    /\ UNCHANGED <<variant, opts, scan, totalFound, links, i, cur, db, nextId,
                   results, errors, batch, summary, linkState, pagesOpen,
                   fetched, delays, scraped, doc, cleaned, calls>>

\* cleanTitle is applied to the title in hand
CleanTitleStep ==
    /\ pc = "title" /\ Len(cleaned) < 3
    /\ cleaned' = Append(cleaned, CleanTitle(cleaned[Len(cleaned)]))
    /\ UNCHANGED <<variant, opts, scan, totalFound, links, i, pc, cur, db,
                   nextId, results, errors, batch, summary, linkState,
                   pagesOpen, fetched, delays, scraped, doc, extracted,
                   calls>>

InitExtract ==
    /\ variant \in {"v2", "v3"}
    /\ opts = DefaultOptions
    /\ scan = <<>>
    /\ db = {}
    /\ nextId = 1
    /\ totalFound = 0 /\ links = <<>> /\ i = 0 /\ cur = None
    /\ results = <<>> /\ errors = <<>> /\ batch = EmptyBatch
    /\ summary = NoSummary /\ linkState = <<>> /\ pagesOpen = 0
    /\ fetched = <<>> /\ delays = <<>> /\ scraped = <<>>
    /\ extracted = <<>>
    /\ calls = NoCalls
    /\ \/ /\ pc = "content"
          /\ \E elements \in SeqsUpTo(PageElems, MaxElems) :
                doc = [elements |-> elements]
          /\ cleaned = <<>>
       \/ /\ pc = "title"
          /\ doc = NoDoc
          /\ \E t \in Titles : cleaned = <<t>>

NextExtract == ExtractV2 \/ ExtractV3 \/ CleanTitleStep

SpecExtract == InitExtract /\ [][NextExtract]_vars

-----------------------------------------------------------------------------
(* Extraction: the title, the word count and the stages of the content *)

\* scrape has built its record from the page
Extracted == extracted # <<>>

\* C17: the title of every record scrape builds (v2 and v3 extractTitle) is a
\* non-empty string; when no candidate gives one, it is the sentinel
C17_TitleNeverEmpty == Extracted => extracted[1].title # ""

\* C18: cleanTitle is idempotent: cleaning a cleaned title changes nothing
C18_CleanTitleIdempotent == Len(cleaned) = 3 => cleaned[3] = cleaned[2]

\* the number of whitespace-delimited tokens of a string: the maximal runs of
\* characters other than white space
Tokens(content) ==
    Cardinality({k \in 1..Len(content) :
                    /\ ~IsSpace(CharAt(content, k))
                    /\ k = 1 \/ IsSpace(CharAt(content, k - 1))})

\* C19: in every record scrape builds, wordCount is the number of
\* whitespace-delimited tokens of content, the empty content included
C19_WordCountIsTokenCount ==
    Extracted => extracted[1].wordCount = Tokens(extracted[1].content)

\* the score of a text by its length alone: ContentScorer on the text with an
\* empty class and no paragraph children
TextScore(text) == ScoreContent("", 0, text)

\* candidate b, which replaced candidate a, is no worse than a
NoWorse(a, b) ==
    /\ Len(b) >= Len(a)
    /\ TextScore(b) >= TextScore(a)
    /\ b = "" => a = ""

\* C20: in v2 extractContent the stages never regress: the paragraph stage
\* and the largest-block stage leave a candidate no shorter, no lower-scoring
\* and no emptier than the one they found, and the text finally chosen
\* scores at least as high as every single paragraph of the page
C20_StagesNeverRegress ==
    (variant = "v2" /\ Extracted) =>
        LET kept   == RemoveUnwantedElements(doc.elements)
            stage1 == FromSelectors(kept)
            stage2 == AfterParagraphs(kept, stage1)
            stage3 == AfterLargestBlock(kept, stage2)
            ps     == Paragraphs(kept)
        IN  /\ NoWorse(stage1, stage2)
            /\ NoWorse(stage2, stage3)
            /\ \A n \in DOMAIN ps :
                  TextScore(extracted[1].content) >= TextScore(ps[n])

-----------------------------------------------------------------------------
(* Callers that share one scraper and its storage: overlapping POST /scrape
   requests of the server (v3 scrape), or the loop bodies of overlapping v2
   pipeline runs, each working on one link.  Every await of a call is a
   point where another caller's step may come in between. *)

\* URLs the callers ask for
CallUrls == {"http://s.com/story/one", "http://s.com/c2"}

\* what a call that found the record answers with: v3 lines 154-158, and the
\* entry the v2 loop pushes at line 297
SkippedResult(v, url) ==
    [skipped |-> TRUE, url |-> url,
     reason  |-> IF v = "v3" THEN "Story already exists" ELSE "already_exists"]

\* v3 line 197 ({ story, skipped: false }); v2 lines 312-317
StoryResult(url) == [skipped |-> FALSE, url |-> url, reason |-> Undefined]

\* v2 line 307
TooShortResult(url) ==
    [skipped |-> TRUE, url |-> url, reason |-> "content_too_short"]

\* the calls for this URL that were over when a new call for it starts
Over(url) ==
    {q \in Callers : calls[q].url = url /\ calls[q].pc \in {"returned", "threw"}}

CallFrame ==
    UNCHANGED <<variant, opts, scan, totalFound, links, i, pc, cur, results,
                errors, batch, summary, linkState, delays, scraped, doc,
                extracted, cleaned>>

\* POST /scrape (part_000 lines 34-41) calls scraper.scrape(url), or answers
\* 400 when the body has no url; v2: the loop body starts on a link
CallScrape(p) ==
    /\ calls[p].pc = "idle"
    /\ \E url \in CallUrls \cup (IF variant = "v3" THEN {Undefined} ELSE {}) :
          calls' = [calls EXCEPT ![p] =
                      IF Missing(url)
                      THEN [@ EXCEPT !.pc = "rejected"]
                      ELSE [@ EXCEPT !.pc = "lookup", !.url = url,
                                     !.after = Over(url),
                                     !.had = Exists(GetStoryByUrl(db, url))]]
    /\ UNCHANGED <<db, nextId, pagesOpen, fetched>>
    /\ CallFrame

\* v3 lines 145-159 (scrape's own SELECT), v2 lines 294-299 (getStoryByUrl)
CallLookup(p) ==
    /\ calls[p].pc = "lookup"
    /\ LET existing == GetStoryByUrl(db, calls[p].url)
       IN  calls' = [calls EXCEPT ![p] =
                       IF Exists(existing)
                       THEN [@ EXCEPT !.pc = "returned",
                                !.result =
                                  <<SkippedResult(variant, calls[p].url)>>]
                       ELSE [@ EXCEPT !.pc = "load"]]
    /\ UNCHANGED <<db, nextId, pagesOpen, fetched>>
    /\ CallFrame

\* the SELECT fails: v3 line 147, v2 line 352
CallLookupFails(p) ==
    /\ calls[p].pc = "lookup"
    /\ calls' = [calls EXCEPT ![p].pc = "threw"]
    /\ UNCHANGED <<db, nextId, pagesOpen, fetched>>
    /\ CallFrame

\* v3 lines 161-177, v2 lines 130-143: the page is opened, loaded, extracted
\* from and closed
CallLoad(p) ==
    /\ calls[p].pc = "load"
    /\ \E content \in Contents :
          calls' = [calls EXCEPT ![p].pc = "insert", ![p].cur = content,
                                 ![p].opened = @ + 1]
    /\ fetched' = Append(fetched, calls[p].url)
    /\ UNCHANGED <<db, nextId, pagesOpen>>
    /\ CallFrame

\* page.goto(url) rejects: scrape throws before page.close()
CallLoadFails(p) ==
    /\ calls[p].pc = "load"
    /\ calls' = [calls EXCEPT ![p].pc = "threw", ![p].opened = @ + 1]
    /\ fetched' = Append(fetched, calls[p].url)
    /\ pagesOpen' = pagesOpen + 1
    /\ UNCHANGED <<db, nextId>>
    /\ CallFrame

\* v3 lines 180-197: INSERT, then scrape returns; v2 lines 146-160 and
\* 303-317: INSERT OR REPLACE, then the loop checks the length
CallInsert(p) ==
    /\ calls[p].pc = "insert"
    /\ nextId' = nextId + 1
    /\ IF variant = "v2"
       THEN /\ db' = InsertOrReplace(db, nextId, calls[p].url, calls[p].cur)
            /\ calls' = [calls EXCEPT ![p] =
                           IF TooShortV2(calls[p].cur, opts)
                           THEN [@ EXCEPT !.pc = "delete"]
                           ELSE [@ EXCEPT !.pc = "returned",
                                    !.result =
                                       <<StoryResult(calls[p].url)>>]]
       ELSE /\ ~UniqueViolation(db, calls[p].url)
            /\ db' = InsertRow(db, nextId, calls[p].url, calls[p].cur)
            /\ calls' = [calls EXCEPT ![p].pc = "returned",
                            ![p].result = <<StoryResult(calls[p].url)>>]
    /\ UNCHANGED <<pagesOpen, fetched>>
    /\ CallFrame

\* the INSERT fails (v3: also whenever the UNIQUE constraint rejects the row)
CallInsertFails(p) ==
    /\ calls[p].pc = "insert"
    /\ calls' = [calls EXCEPT ![p].pc = "threw"]
    /\ UNCHANGED <<db, nextId, pagesOpen, fetched>>
    /\ CallFrame

\* v2 lines 306-308: the too-short record is deleted again
CallDelete(p) ==
    /\ calls[p].pc = "delete"
    /\ db' = DeleteStoryByUrl(db, calls[p].url)
    /\ calls' = [calls EXCEPT ![p].pc = "returned",
                    ![p].result = <<TooShortResult(calls[p].url)>>]
    /\ UNCHANGED <<nextId, pagesOpen, fetched>>
    /\ CallFrame

\* the DELETE fails
CallDeleteFails(p) ==
    /\ calls[p].pc = "delete"
    /\ calls' = [calls EXCEPT ![p].pc = "threw"]
    /\ UNCHANGED <<db, nextId, pagesOpen, fetched>>
    /\ CallFrame

InitCalls ==
    /\ variant \in {"v2", "v3"}
    /\ opts \in PipeOptions(variant)
    /\ scan = <<>>
    /\ \E pre \in SUBSET CallUrls :
          /\ db = TableOf(pre, 1)
          /\ nextId = Cardinality(pre) + 1
    /\ InitRun

NextCalls ==
    \E p \in Callers :
        \/ CallScrape(p) \/ CallLookup(p) \/ CallLookupFails(p)
        \/ CallLoad(p) \/ CallLoadFails(p)
        \/ CallInsert(p) \/ CallInsertFails(p)
        \/ CallDelete(p) \/ CallDeleteFails(p)

SpecCalls == InitCalls /\ [][NextCalls]_vars

-----------------------------------------------------------------------------
(* Calls of scrape against storage that other calls use as well *)

Called(p) == calls[p].pc \notin {"idle", "rejected"}

\* the call has got past its duplicate lookup, one way or the other
LookedUp(p) == Called(p) /\ calls[p].pc # "lookup"

ReturnedSkipped(p) ==
    /\ calls[p].pc = "returned"
    /\ calls[p].result[1].skipped
    /\ calls[p].result[1].reason # Undefined

\* q's call reported a story for the URL and was over before p called
ToldOfStoryBefore(q, p) ==
    /\ q \in calls[p].after
    /\ calls[q].pc = "returned"

\* C21 as stated: v3 scrape(url) called while storage has a record for url
\* returns skipped = true with a reason, opens no page and changes nothing in
\* storage; of two successive calls for one URL the second reports skipped and
\* exactly one record is left
C21_StoredUrlIsSkipped ==
    variant = "v3" =>
        \A p \in Callers :
            /\ (calls[p].had /\ LookedUp(p)) =>
                   ReturnedSkipped(p) /\ calls[p].opened = 0
            /\ \A q \in calls[p].after :
                   LookedUp(p) =>
                       /\ ReturnedSkipped(p)
                       /\ Cardinality(RowsOf(db, calls[p].url)) = 1

\* what a call made while the record is there ends as
SkippedOrLookupFailed ==
    variant = "v3" =>
        \A p \in Callers :
            /\ (calls[p].had /\ LookedUp(p)) =>
                   /\ ReturnedSkipped(p) \/ calls[p].pc = "threw"
                   /\ calls[p].opened = 0
            /\ \A q \in Callers :
                   ToldOfStoryBefore(q, p) =>
                       /\ calls[p].had
                       /\ Cardinality(RowsOf(db, calls[p].url)) = 1

\* a step of a call made while the record is there
StepOfStoredCall(p) == calls[p].had /\ calls'[p] # calls[p]

\* C21, amended: v3 scrape(url) called while storage has a record for url
\* returns skipped = true with a reason when its lookup returns the record and
\* throws when the lookup itself fails; either way it opens no page and leaves
\* storage unchanged.  So a call made after an earlier call for the same URL
\* has returned (with a new or a stored story) finds exactly one record, and
\* reports skipped unless its lookup fails
C21_StoredUrlSkippedUnlessLookupFails ==
    /\ []SkippedOrLookupFailed
    /\ [][variant = "v3" =>
            \A p \in Callers :
                StepOfStoredCall(p) =>
                    /\ db' = db
                    /\ pagesOpen' = pagesOpen
                    /\ fetched' = fetched]_vars

\* a second call has reported skipped after a first one stored the story
C21_Witness ==
    /\ variant = "v3"
    /\ \E p, q \in Callers :
          /\ ToldOfStoryBefore(q, p)
          /\ ~calls[q].result[1].skipped
          /\ ReturnedSkipped(p)
          /\ Cardinality(RowsOf(db, calls[p].url)) = 1

-----------------------------------------------------------------------------
(* Renderer pages of a pipeline run *)

\* the run is between two links, starting a link, or over
BetweenLinks == pc \in {"lookup", "scrape", "load", "delay", "done", "threw"}

\* C22: within a pipeline run at most one renderer page is open at any time,
\* and every page the run opened is closed again, also after a failed load,
\* before the next link is started and when the run ends
C22_PagesAlwaysReleased ==
    /\ pagesOpen <= 1
    /\ BetweenLinks => pagesOpen = 0

\* calls that have handed the URL to page.goto
Fetchers(url) ==
    {p \in Callers : calls[p].url = url /\ calls[p].opened > 0}

\* the lookup of p's call answers in this step
LookupAnswers(p) ==
    calls[p].pc = "lookup" /\ calls'[p].pc \in {"load", "returned"}

\* a call past its lookup goes on to the page and to the INSERT: nothing
\* looks at storage, or at the other calls, again before the write
GoesOnToWrite(p) ==
    /\ calls[p].pc = "load" => calls'[p].pc \in {"load", "insert", "threw"}
    /\ calls[p].pc = "insert" =>
           \/ calls'[p].pc \in {"insert", "threw", "delete"}
           \/ calls'[p].pc = "returned" /\ ~calls'[p].result[1].skipped

\* C23: the duplicate check and the insert are not atomic.  A lookup passes
\* exactly when storage holds no record of the URL at that instant, whatever
\* calls are in flight, and a call past its lookup is never turned back; so
\* two concurrent calls can both pass the lookup for one URL before either
\* has written it, and then both fetch it and both attempt the write
C23_CheckThenInsertNotAtomic ==
    /\ [][\A p \in Callers :
            /\ LookupAnswers(p) =>
                   (calls'[p].pc = "load" <=> RowsOf(db, calls[p].url) = {})
            /\ GoesOnToWrite(p)]_vars
    /\ [](\A url \in CallUrls :
            Occurrences(fetched, url) = Cardinality(Fetchers(url)))

\* both calls have passed the lookup and fetched the URL, and both are at
\* their INSERT with nothing written yet
C23_Witness ==
    \E p, q \in Callers :
        /\ p # q
        /\ calls[p].url = calls[q].url
        /\ calls[p].pc = "insert" /\ calls[q].pc = "insert"
        /\ Occurrences(fetched, calls[p].url) = 2
        /\ RowsOf(db, calls[p].url) = {}

-----------------------------------------------------------------------------
(* batchScrapeFromLinks (v3): what is counted and when the delay is waited *)

\* scrape has returned a newly scraped story for link k
NewlyScraped(k) == scraped[k] # None

\* C24: in v3 batchScrapeFromLinks a link whose newly scraped story has fewer
\* than minWordCount words is counted as skipped: it is not counted
\* successful and its result is not pushed to results.stories
C24_ShortStoryCountedSkipped ==
    variant = "v3" =>
        \A k \in LinkIdx :
            (/\ NewlyScraped(k)
             /\ Terminal(linkState[k])
             /\ WordCount(scraped[k]) < opts.minWordCount) =>
                /\ linkState[k] = "SkippedTooShort"
                /\ batch.successful = CountState("Success")
                /\ Len(batch.stories) = CountState("Success")

\* the loop has left link k behind: it is on a later link, or has returned
LeftBehind(k) == Terminal(linkState[k]) /\ (i >= k \/ pc = "done")

\* how many times the delay was waited after link k
TimesWaited(k) == Occurrences(delays, k - 1)

\* C25: in v3 batchScrapeFromLinks with delay > 0, once the loop has left a
\* link behind the delay has been waited after it (once) when the link ended
\* successful or failed and is not the last of the list, and has not been
\* waited after it when it ended skipped or is the last link
C25_DelayAfterAllButSkippedAndLast ==
    (variant = "v3" /\ opts.delay > 0) =>
        \A k \in LinkIdx :
            /\ LeftBehind(k) =>
                   TimesWaited(k) =
                       IF /\ linkState[k] \in {"Success", "Failed"}
                          /\ k < Len(links)
                       THEN 1 ELSE 0
            /\ ~Terminal(linkState[k]) => TimesWaited(k) = 0

\* a v3 run with a delay has returned: the delay was waited after a failed
\* link, not after a skipped one, and not after the last link
C25_Witness ==
    /\ variant = "v3" /\ opts.delay > 0 /\ pc = "done" /\ Len(links) = 3
    /\ linkState[1] = "Failed" /\ Waited(0)
    /\ linkState[2] = "SkippedDuplicate" /\ ~Waited(1)
    /\ linkState[3] = "Success" /\ ~Waited(2)

-----------------------------------------------------------------------------
(* Extraction: the stages of v2 extractContent and the final clean-up *)

\* the matches of the content selectors, in the order stage 1 visits them
Stage1Candidates ==
    Candidates(RemoveUnwantedElements(doc.elements), ContentSelectorsV2)

CandidateText(n) == Trim(ElementText(Stage1Candidates[n]))

CandidateScore(n) == ScoreContentElement(Stage1Candidates[n], CandidateText(n))

\* the matches whose trimmed text is longer than 100 characters
LongCandidates ==
    {n \in DOMAIN Stage1Candidates : Len(CandidateText(n)) > 100}

\* C26: in stage 1 of v2 extractContent, when some match of the content
\* selectors has trimmed text longer than 100 characters, the text kept is
\* that of a match of maximum score among them, the first one visited on a
\* tie, whatever the sign of the scores
C26_Stage1KeepsMaxScore ==
    (Extracted /\ variant = "v2" /\ LongCandidates # {}) =>
        \E n \in LongCandidates :
            /\ FromSelectors(RemoveUnwantedElements(doc.elements))
                   = CandidateText(n)
            /\ \A m \in LongCandidates :
                   /\ CandidateScore(m) <= CandidateScore(n)
                   /\ m < n => CandidateScore(m) < CandidateScore(n)

\* the string has no white space at either end and no two white-space
\* characters in a row
Normalized(t) ==
    /\ t # "" => ~IsSpace(CharAt(t, 1)) /\ ~IsSpace(CharAt(t, Len(t)))
    /\ \A k \in 1..(Len(t) - 1) :
           ~(IsSpace(CharAt(t, k)) /\ IsSpace(CharAt(t, k + 1)))

\* C27: the content v2 extractContent returns, which is what cleanContent
\* gave, is fully normalized: no white space at its ends and no run of two
\* or more white-space characters, also where a boilerplate phrase was
\* stripped
C27_ContentFullyNormalized ==
    (Extracted /\ variant = "v2") => Normalized(extracted[1].content)

-----------------------------------------------------------------------------
(* The stories table under overlapping callers *)

OneRecordPerUrl ==
    \A row \in db : Cardinality(RowsOf(db, row.url)) = 1

\* p's INSERT is answered in this step while the URL has a record already
SecondInsert(p) ==
    /\ calls[p].pc = "insert" /\ calls'[p].pc # "insert"
    /\ RowsOf(db, calls[p].url) # {}

\* C28: at every reachable state, also while several calls are interleaved
\* against one storage, the stories table holds at most one record per URL:
\* a v2 insert of a stored URL replaces the record, a v3 insert of a stored
\* URL is rejected and the call fails
C28_AtMostOneRecordPerUrl ==
    /\ []OneRecordPerUrl
    /\ [][\A p \in Callers :
            SecondInsert(p) =>
                IF variant = "v3"
                THEN calls'[p].pc = "threw" /\ db' = db
                ELSE \/ calls'[p].pc = "threw" /\ db' = db
                     \/ /\ RowsOf(db', calls[p].url)
                              = {NewRow(nextId, calls[p].url, calls[p].cur)}
                        /\ calls'[p].pc \in {"returned", "delete"}]_vars

\* two overlapping v3 calls fetched one URL: one stored it, the other's
\* INSERT was rejected
C28_Witness ==
    /\ variant = "v3"
    /\ \E p, q \in Callers :
          /\ p # q /\ calls[p].url = calls[q].url
          /\ calls[p].opened = 1 /\ calls[q].opened = 1
          /\ calls[p].pc = "returned" /\ ~calls[p].result[1].skipped
          /\ calls[q].pc = "threw" /\ calls[q].cur # None
          /\ Cardinality(RowsOf(db, calls[p].url)) = 1

-----------------------------------------------------------------------------
(* batchScrapeFromLinks (v3): stored links, and what a failed link leaves *)

\* the URL of link k had a record before the run started
StoredBefore(k) == \E row \in RowsOf(db, links[k].url) : ~row.fresh

\* C29: in v3 batchScrapeFromLinks, with skipExisting true or false, a link
\* whose URL had a stored record before it was processed is never counted
\* successful, and every entry of results.stories is a story this run has
\* newly persisted
C29_StoredLinkNeverSuccessful ==
    variant = "v3" =>
        /\ \A k \in LinkIdx :
               (StoredBefore(k) /\ Terminal(linkState[k])) =>
                   linkState[k] # "Success"
        /\ \A n \in DOMAIN batch.stories : ~batch.stories[n].skipped

\* C30: a link that ended Failed has left no record written by this run for
\* its URL in storage, whichever step raised the error
C30_FailedLinkLeavesNoRecord ==
    \A k \in LinkIdx :
        linkState[k] = "Failed" =>
            \A row \in RowsOf(db, links[k].url) : ~row.fresh

====
